---- MODULE Spec2Model ----
(***************************************************************************)
(* A model of pdfforge: the merge orchestrator (core/merge.py), the        *)
(* normalizer (core/normalize.py), the page-number placer                  *)
(* (utils/ocr_utils.py), the compression service, the batch services, the  *)
(* merge service, detect_pdf_type, the shared service objects under two    *)
(* concurrent requests, a reused PDFMerger and the stamping of one page.   *)
(* Each subsystem has its own specification; the variables of the other    *)
(* subsystems stay at their idle values.                                   *)
(***************************************************************************)
EXTENDS Integers, Sequences, FiniteSets, TLC

\* ---------------------------------------------------------------- bounds
MaxFiles == 2
MaxPages == 2
MaxPageStart == 2
MaxNormPages == 2
MaxImages == 1
MaxBatch == 3
MaxCalls == 2

VARIABLES
    \* ---- PDFMerger.merge
    m_pc,               \* position inside merge()
    m_dict,             \* the options dict handed to MergeOptions.from_dict
    options,            \* self.options (a MergeOptions)
    files,              \* the List[PDFFile] argument
    output_pdf,         \* pages of the output document, in order
    output_closed,      \* output_pdf.close() has been called
    outline,            \* what set_toc installed
    outline_sets,       \* number of set_toc calls
    source_pdfs,        \* file indexes of the opened source documents
    open_handles,       \* source documents currently open
    total_page_number,
    total_pages_processed,
    current_page,
    toc_page_count,
    file_info,
    idx,                \* 1-based position in files (enumerate index + 1)
    page_num,           \* 0-based page inside the current source
    start_page_idx,
    m_exc,              \* exception in flight / raised to the caller
    headers_at_start,   \* options.add_headers when merge() was entered
    \* ---- get_safe_page_number_position
    p_pc,
    p_impl,             \* "utils" (utils/ocr_utils.py) or "app" (app.py)
    p_page,             \* what the page holds at each candidate position
    p_preferred,
    p_result,
    \* ---- PDFNormalizer.normalize
    n_pc,
    n_options,          \* self.options (a NormalizeOptions)
    n_doc,              \* the file behind pdf_file.path
    n_source,           \* pages of source_doc as they are now
    n_source_open,      \* source_doc is open
    n_output,           \* pages of output_doc
    n_target,           \* (target_width, target_height)
    n_page_num,
    n_exc,
    \* ---- compress_pdf_enhanced / compress_pdf_smart
    c_pc,
    c_impl,             \* "enhanced" (CompressService) or "smart" (app.py)
    c_options,          \* the options dict of the call
    c_file,             \* the input PDF and what the libraries do with it
    c_settings,         \* image_quality, target_dpi, deflate, downsample
    c_images_out,       \* per embedded image: what was done to it
    c_counts,           \* images_processed / _downsampled / _skipped
    c_delivered,        \* the file left at the output path
    c_stats,            \* the record returned
    \* ---- NormalizeService.normalize_batch / CompressService.compress_batch
    b_pc,
    b_impl,             \* "normalize" or "compress"
    b_configs,          \* the file configs of the batch
    b_i,                \* 1-based position of the loop
    b_results,          \* results
    b_ok_files,         \* normalized_files / compressed_files
    b_called,           \* configs handed to normalize_file / compress_file
    b_return            \* what the batch call returns

mvars == <<m_pc, m_dict, options, files, output_pdf, output_closed, outline,
           outline_sets, source_pdfs, open_handles, total_page_number,
           total_pages_processed, current_page, toc_page_count, file_info,
           idx, page_num, start_page_idx, m_exc, headers_at_start>>

pvars == <<p_pc, p_impl, p_page, p_preferred, p_result>>

nvars == <<n_pc, n_options, n_doc, n_source, n_source_open, n_output,
           n_target, n_page_num, n_exc>>

cvars == <<c_pc, c_impl, c_options, c_file, c_settings, c_images_out,
           c_counts, c_delivered, c_stats>>

bvars == <<b_pc, b_impl, b_configs, b_i, b_results, b_ok_files, b_called,
           b_return>>

VARIABLES
    \* ---- MergeService.merge_files
    s_pc,
    s_configs,          \* file_configs
    s_dict,             \* the options dict of the request
    s_pdf_files,        \* pdf_files
    s_merged_doc,       \* merged_doc: "None" or the document merge() returned
    s_exc,              \* exception caught by the except clause
    s_result,           \* the dict merge_files returns
    s_saved,            \* an output file was written
    s_removed           \* source paths handed to cleanup_temp_files

svars == <<s_pc, s_configs, s_dict, s_pdf_files, s_merged_doc, s_exc,
    s_result, s_saved, s_removed>>

VARIABLES
    \* ---- detect_pdf_type
    d_pc,
    d_impl,             \* "utils" (utils/pdf_utils.py) or "app" (app.py)
    d_page,             \* the page handed in
    d_result            \* the dict returned

dvars == <<d_pc, d_impl, d_page, d_result>>

VARIABLES
    \* ---- two requests on the module-level services
    q_impl,             \* "normalize" (normalize_file) or "compress" (compress_file)
    q_dicts,            \* per request: its options dict
    q_pc,               \* per request: position inside the service method
    q_local,            \* per request: the options object held in a local
    q_shared,           \* the attribute of the shared service object
    q_used,             \* per request: the options its document was run with
    q_report            \* per request: the options named in its result

qvars == <<q_impl, q_dicts, q_pc, q_local, q_shared, q_used, q_report>>

VARIABLES
    \* ---- one PDFMerger used for successive merge() calls
    r_pc,
    r_dict,             \* the options dict of the construction
    r_constructed,      \* the MergeOptions handed to PDFMerger(...)
    r_options,          \* self.options as it is now
    r_calls             \* per merge() call: its files and the mode it used

rvars == <<r_pc, r_dict, r_constructed, r_options, r_calls>>

VARIABLES
    \* ---- one output page of a merge: placement, headers, page number
    t_pc,
    t_mode,             \* "headers" (_process_page_with_headers) or "copy"
    t_source,           \* the source page
    t_lands,            \* the scaled bottom band of the source falls into
                        \* the bottom band of the new page
    t_header,           \* the header lines of the file
    t_preferred,        \* options.page_number_position
    t_page,             \* the output page as it is now
    t_position,         \* safe_position chosen for the page number
    t_impl,             \* "core" (PDFMerger) or "app" (process_and_add_page)
    t_add_footer_line,  \* options.add_footer_line
    t_footer_space,     \* footer_space reserved when the page was placed
    t_lines             \* separators drawn on the page with draw_line

tvars == <<t_pc, t_mode, t_source, t_lands, t_header, t_preferred, t_page,
    t_position, t_impl, t_add_footer_line, t_footer_space, t_lines>>

VARIABLES
    \* ---- layout of one content page in merge transform mode
    l_pc,
    l_impl,             \* "core" or "app"
    l_src,              \* src_page.rect, [width, height]
    l_flags,            \* what the page analysis finds on the source page
    l_headers_empty,    \* both header lines of the file are empty
    l_smart_spacing,    \* options smart_spacing
    l_scale_factor,     \* options scale_factor, in thousandths
    l_add_footer_line,  \* options add_footer_line
    l_layout,           \* current_scale_factor, header_space, content_offset
    l_scale,            \* the final scale, a fraction <<numerator, denominator>>
    l_rect              \* target_rect, in units of 1/den point

lvars == <<l_pc, l_impl, l_src, l_flags, l_headers_empty, l_smart_spacing,
    l_scale_factor, l_add_footer_line, l_layout, l_scale, l_rect>>

VARIABLES
    \* ---- fitting one source page into the normalized page
    f_pc,
    f_options,          \* self.options (a NormalizeOptions)
    f_mediabox,         \* the source page without its rotation, [width, height]
    f_rotation,         \* source_page.rotation
    f_target,           \* (target_width, target_height)
    f_rect,             \* target_rect, in units of 1/den point
    f_rotate            \* the rotate argument of show_pdf_page

fvars == <<f_pc, f_options, f_mediabox, f_rotation, f_target, f_rect,
    f_rotate>>

vars == <<mvars, pvars, nvars, cvars, bvars, svars, dvars, qvars, rvars, tvars, lvars, fvars>>

not_merge == <<pvars, nvars, cvars, bvars, svars, dvars, qvars, rvars,
    tvars, lvars, fvars>>
not_placer == <<mvars, nvars, cvars, bvars, svars, dvars, qvars, rvars,
    tvars, lvars, fvars>>
not_normalize == <<mvars, pvars, cvars, bvars, svars, dvars, qvars, rvars,
    tvars, lvars, fvars>>
not_compress == <<mvars, pvars, nvars, bvars, svars, dvars, qvars, rvars,
    tvars, lvars, fvars>>
not_batch == <<mvars, pvars, nvars, cvars, svars, dvars, qvars, rvars,
    tvars, lvars, fvars>>
not_service == <<mvars, pvars, nvars, cvars, bvars, dvars, qvars, rvars,
    tvars, lvars, fvars>>
not_detect == <<mvars, pvars, nvars, cvars, bvars, svars, qvars, rvars,
    tvars, lvars, fvars>>
not_requests == <<mvars, pvars, nvars, cvars, bvars, svars, dvars, rvars,
    tvars, lvars, fvars>>
not_reuse == <<mvars, pvars, nvars, cvars, bvars, svars, dvars, qvars,
    tvars, lvars, fvars>>
not_stamp == <<mvars, pvars, nvars, cvars, bvars, svars, dvars, qvars,
    rvars, lvars, fvars>>
not_layout == <<mvars, pvars, nvars, cvars, bvars, svars, dvars, qvars,
    rvars, tvars, fvars>>
not_fit == <<mvars, pvars, nvars, cvars, bvars, svars, dvars, qvars, rvars,
    tvars, lvars>>

\* ------------------------------------------------------------- helpers
Range(s) == {s[i] : i \in 1..Len(s)}

RECURSIVE SumSeq(_)
SumSeq(s) == IF s = <<>> THEN 0 ELSE s[1] + SumSeq(Tail(s))

Min2(a, b) == IF a <= b THEN a ELSE b

\* dict.get(key, default)
Get(d, k, default) == IF k \in DOMAIN d THEN d[k] ELSE default

\* ------------------------------------------------ models/merge_options.py
MergeOptionsDefault ==
    [add_headers |-> FALSE, page_start |-> 1, add_page_numbers |-> TRUE,
     add_bookmarks |-> TRUE, add_toc |-> TRUE,
     scale_factor |-> 96, scale_factor_optimized |-> 99,
     page_number_position |-> "bottom-center", page_number_font_size |-> 12]

\* scale factors are kept in hundredths (0.96 is 96)
MergeOptions_from_dict(d) ==
    IF DOMAIN d = {} THEN MergeOptionsDefault
    ELSE [add_headers      |-> Get(d, "add_headers", FALSE),
          page_start       |-> Get(d, "page_start", 1),
          add_page_numbers |-> Get(d, "add_page_numbers", TRUE),
          add_bookmarks    |-> Get(d, "add_bookmarks", TRUE),
          add_toc          |-> Get(d, "add_toc", TRUE),
          scale_factor     |-> Get(d, "scale_factor", 96),
          scale_factor_optimized |-> Get(d, "scale_factor_optimized", 99),
          page_number_position |-> Get(d, "page_number_position", "bottom-center"),
          page_number_font_size |-> Get(d, "page_number_font_size", 12)]

\* MergeOptions.validate: TRUE when no ValueError is raised
MergeOptions_validate(o) ==
    /\ ~(o.page_start < 1)
    /\ (0 < o.scale_factor /\ o.scale_factor <= 100)
    /\ (0 < o.scale_factor_optimized /\ o.scale_factor_optimized <= 100)
    /\ o.page_number_position
          \in {"top-center", "bottom-center", "top-right", "bottom-right"}
    /\ ~(o.page_number_font_size < 6 \/ o.page_number_font_size > 72)

\* ------------------------------------------------------------ the inputs
\* A source file: kind "ok" opens and processes; "missing" does not exist;
\* "corrupt" exists but fitz.open raises; "badpage" opens but processing of
\* its last page raises.  hdr: some header line is non-blank.
FileKinds == {"ok", "missing", "corrupt", "badpage"}

PDFFiles ==
    [kind : {"ok", "badpage"}, pages : 1..MaxPages, hdr : BOOLEAN]
    \cup [kind : {"missing", "corrupt"}, pages : {0}, hdr : BOOLEAN]

FileLists == UNION {[1..n -> PDFFiles] : n \in 0..MaxFiles}

KeyChoice(k, vals) == {<<>>} \cup {k :> v : v \in vals}

MergeDicts ==
    {h @@ t @@ b @@ p :
        h \in KeyChoice("add_headers", {TRUE}),
        t \in KeyChoice("add_toc", BOOLEAN),
        b \in KeyChoice("add_bookmarks", BOOLEAN),
        p \in KeyChoice("page_start", {MaxPageStart})}

\* os.path.exists(file_path)
Exists(f) == f.kind # "missing"

\* len(fitz.open(path)) as _create_toc_page reads it (0 when open fails)
DocPageCount(f) == IF f.kind \in {"ok", "badpage"} THEN f.pages ELSE 0

\* ------------------------------------------------------- core/merge.py
\* all(not header_line1.strip() and not header_line2.strip() for file in files)
AllHeadersEmpty(fs) == \A i \in 1..Len(fs) : ~fs[i].hdr

\* lines 73-81: when every header is blank, self.options.add_headers is
\* set to False
OptionsAfterHeaderCheck_NoDowngrade(o, fs) == o

OptionsAfterHeaderCheck(o, fs) ==
    IF o.add_headers /\ AllHeadersEmpty(fs)
    THEN [o EXCEPT !.add_headers = FALSE]
    ELSE o

\* lines 112-127: _process_page_with_headers or _copy_page_directly
PageMode(o) == IF o.add_headers THEN "headers" ELSE "copy"

\* The entry loop of _create_toc_page: one line per file until current_y
\* passes 700; the page printed is current_content_page.
RECURSIVE TocEntries(_, _, _, _)
TocEntries(fs, i, current_y, current_content_page) ==
    IF i > Len(fs) \/ current_y > 700 THEN <<>>
    ELSE <<[idx |-> i, page |-> current_content_page]>>
         \o TocEntries(fs, i + 1, current_y + 20,
                       current_content_page + DocPageCount(fs[i]))

TocPage(fs) ==
    [kind |-> "toc", file |-> 0, src |-> 0, number |-> 0, mode |-> "toc",
     entries |-> TocEntries(fs, 1, 50 + 40, 1), size |-> <<612, 792>>]

\* the 'page_count' of the record _create_toc_page returns
TocInfoPageCount(fs) == 1

\* src_page.rect of the source pages (A4, so that a copied page is told
\* from a new letter page)
SourceRect == <<595, 842>>

\* _process_page_with_headers puts the source page on
\* new_page(width=612, height=792); insert_pdf keeps the source page
ContentPage(i, src, number, mode) ==
    [kind |-> "content", file |-> i, src |-> src, number |-> number,
     mode |-> mode, entries |-> <<>>,
     size |-> IF mode = "headers" THEN <<612, 792>> ELSE SourceRect]

\* total_page_number after the TOC page was created ("DON'T increment")
NumberAfterToc_TocNumbered(tpn, cnt) == tpn + cnt

NumberAfterToc(tpn, cnt) == tpn

\* current_page after the TOC page was created
PositionAfterToc_TocNotCounted(cp, cnt) == cp

PositionAfterToc(cp, cnt) == cp + cnt

\* bookmark_page of create_bookmarks
BookmarkPage_TocAddedAgain(info, cnt) == info.start_page + 1 + cnt

BookmarkPage(info, cnt) == info.start_page + 1

create_bookmarks(finfo, cnt) ==
    [i \in 1..Len(finfo) |->
        [level |-> 1, name |-> finfo[i].name, page |-> BookmarkPage(finfo[i], cnt)]]

\* line 142 taken without the count of merged files
ShouldCreateBookmarks_AnyCount(opts, finfo) == opts.add_bookmarks

\* line 142: if self.options.add_bookmarks and len(file_info) > 1
ShouldCreateBookmarks(opts, finfo) == opts.add_bookmarks /\ Len(finfo) > 1

\* the finally clause: every document in source_pdfs is closed
CloseSources_AllButLast(handles, pdfs) ==
    handles \ Range(SubSeq(pdfs, 1, Len(pdfs) - 1))

CloseSources(handles, pdfs) == handles \ Range(pdfs)

\* raise PDFMergeError(...) in the except clause
WrapMergeError(e) == "PDFMergeError"

MergeInit ==
    /\ m_pc = "start"
    /\ m_dict \in MergeDicts
    /\ options = MergeOptions_from_dict(m_dict)
    /\ files \in FileLists
    /\ output_pdf = <<>>
    /\ output_closed = FALSE
    /\ outline = <<>>
    /\ outline_sets = 0
    /\ source_pdfs = <<>>
    /\ open_handles = {}
    /\ total_page_number = 0
    /\ total_pages_processed = 0
    /\ current_page = 0
    /\ toc_page_count = 0
    /\ file_info = <<>>
    /\ idx = 0
    /\ page_num = 0
    /\ start_page_idx = 0
    /\ m_exc = "none"
    /\ headers_at_start = options.add_headers

\* lines 53-81: the counters, and the downgrade to a simple merge
MergeBegin ==
    /\ m_pc = "start"
    /\ total_page_number' = options.page_start
    /\ total_pages_processed' = 0
    /\ file_info' = <<>>
    /\ current_page' = 0
    /\ toc_page_count' = 0
    /\ options' = OptionsAfterHeaderCheck(options, files)
    /\ m_pc' = "toc"
    /\ UNCHANGED <<not_merge, m_dict, files, output_pdf, output_closed, outline,
                   outline_sets, source_pdfs, open_handles, idx, page_num,
                   start_page_idx, m_exc, headers_at_start>>

\* lines 83-90
CreateToc ==
    /\ m_pc = "toc"
    /\ IF options.add_toc /\ Len(files) > 1
       THEN /\ output_pdf' = Append(output_pdf, TocPage(files))
            /\ toc_page_count' = TocInfoPageCount(files)
            /\ current_page' = PositionAfterToc(current_page, toc_page_count')
            /\ total_page_number' = NumberAfterToc(total_page_number, toc_page_count')
       ELSE UNCHANGED <<output_pdf, toc_page_count, current_page, total_page_number>>
    /\ idx' = 1
    /\ m_pc' = "loop"
    /\ UNCHANGED <<not_merge, m_dict, options, files, output_closed, outline, outline_sets,
                   source_pdfs, open_handles, total_pages_processed, file_info,
                   page_num, start_page_idx, m_exc, headers_at_start>>

\* lines 92-97: a path that does not exist is skipped
SkipMissing ==
    /\ m_pc = "loop"
    /\ idx <= Len(files)
    /\ ~Exists(files[idx])
    /\ idx' = idx + 1
    /\ UNCHANGED <<not_merge, m_pc, m_dict, options, files, output_pdf, output_closed,
                   outline, outline_sets, source_pdfs, open_handles,
                   total_page_number, total_pages_processed, current_page,
                   toc_page_count, file_info, page_num, start_page_idx, m_exc,
                   headers_at_start>>

\* line 99 raising: the file exists but is no readable PDF
OpenFails ==
    /\ m_pc = "loop"
    /\ idx <= Len(files)
    /\ files[idx].kind = "corrupt"
    /\ m_exc' = "FileDataError"
    /\ m_pc' = "except"
    /\ UNCHANGED <<not_merge, m_dict, options, files, output_pdf, output_closed, outline,
                   outline_sets, source_pdfs, open_handles, total_page_number,
                   total_pages_processed, current_page, toc_page_count,
                   file_info, idx, page_num, start_page_idx, headers_at_start>>

\* lines 99-110: the source is opened and remembered for the finally clause
OpenFile ==
    /\ m_pc = "loop"
    /\ idx <= Len(files)
    /\ files[idx].kind \in {"ok", "badpage"}
    /\ source_pdfs' = Append(source_pdfs, idx)
    /\ open_handles' = open_handles \cup {idx}
    /\ start_page_idx' = current_page
    /\ page_num' = 0
    /\ m_pc' = "page"
    /\ UNCHANGED <<not_merge, m_dict, options, files, output_pdf, output_closed, outline,
                   outline_sets, total_page_number, total_pages_processed,
                   current_page, toc_page_count, file_info, idx, m_exc,
                   headers_at_start>>

\* lines 113-131, one iteration: the page is appended through
\* _process_page_with_headers or _copy_page_directly with total_page_number
ProcessPage ==
    /\ m_pc = "page"
    /\ page_num < files[idx].pages
    /\ ~(files[idx].kind = "badpage" /\ page_num = files[idx].pages - 1)
    /\ output_pdf' = Append(output_pdf,
                        ContentPage(idx, page_num, total_page_number,
                                    PageMode(options)))
    /\ total_page_number' = total_page_number + 1
    /\ current_page' = current_page + 1
    /\ page_num' = page_num + 1
    /\ UNCHANGED <<not_merge, m_pc, m_dict, options, files, output_closed, outline,
                   outline_sets, source_pdfs, open_handles,
                   total_pages_processed, toc_page_count, file_info, idx,
                   start_page_idx, m_exc, headers_at_start>>

\* the same iteration raising: show_pdf_page fails after new_page (line 289)
\* appended the page, insert_pdf (line 333) fails before anything is appended
PageFails ==
    /\ m_pc = "page"
    /\ page_num < files[idx].pages
    /\ files[idx].kind = "badpage" /\ page_num = files[idx].pages - 1
    /\ output_pdf' = IF options.add_headers
                     THEN Append(output_pdf,
                             ContentPage(idx, page_num, total_page_number, "headers"))
                     ELSE output_pdf
    /\ m_exc' = "RuntimeError"
    /\ m_pc' = "except"
    /\ UNCHANGED <<not_merge, m_dict, options, files, output_closed, outline, outline_sets,
                   source_pdfs, open_handles, total_page_number,
                   total_pages_processed, current_page, toc_page_count,
                   file_info, idx, page_num, start_page_idx, headers_at_start>>

\* lines 133-140
FinishFile ==
    /\ m_pc = "page"
    /\ page_num = files[idx].pages
    /\ file_info' = Append(file_info,
                       [name |-> idx, start_page |-> start_page_idx,
                        page_count |-> files[idx].pages])
    /\ total_pages_processed' = total_pages_processed + files[idx].pages
    /\ idx' = idx + 1
    /\ m_pc' = "loop"
    /\ UNCHANGED <<not_merge, m_dict, options, files, output_pdf, output_closed, outline,
                   outline_sets, source_pdfs, open_handles, total_page_number,
                   current_page, toc_page_count, page_num, start_page_idx,
                   m_exc, headers_at_start>>

\* lines 142-151
InstallBookmarks ==
    /\ m_pc = "loop"
    /\ idx > Len(files)
    /\ IF ShouldCreateBookmarks(options, file_info)
       THEN /\ outline' = create_bookmarks(file_info, toc_page_count)
            /\ outline_sets' = outline_sets + 1
       ELSE UNCHANGED <<outline, outline_sets>>
    /\ m_pc' = "return"
    /\ UNCHANGED <<not_merge, m_dict, options, files, output_pdf, output_closed,
                   source_pdfs, open_handles, total_page_number,
                   total_pages_processed, current_page, toc_page_count,
                   file_info, idx, page_num, start_page_idx, m_exc,
                   headers_at_start>>

\* line 164 and the finally clause (172-177)
MergeReturn ==
    /\ m_pc = "return"
    /\ open_handles' = CloseSources(open_handles, source_pdfs)
    /\ m_pc' = "returned"
    /\ UNCHANGED <<not_merge, m_dict, options, files, output_pdf, output_closed, outline,
                   outline_sets, source_pdfs, total_page_number,
                   total_pages_processed, current_page, toc_page_count,
                   file_info, idx, page_num, start_page_idx, m_exc,
                   headers_at_start>>

\* the except clause (166-171) and the finally clause (172-177)
MergeExcept ==
    /\ m_pc = "except"
    /\ output_closed' = TRUE
    /\ m_exc' = WrapMergeError(m_exc)
    /\ open_handles' = CloseSources(open_handles, source_pdfs)
    /\ m_pc' = "raised"
    /\ UNCHANGED <<not_merge, m_dict, options, files, output_pdf, outline, outline_sets,
                   source_pdfs, total_page_number, total_pages_processed,
                   current_page, toc_page_count, file_info, idx, page_num,
                   start_page_idx, headers_at_start>>

MergeNext ==
    \/ MergeBegin
    \/ CreateToc
    \/ SkipMissing
    \/ OpenFails
    \/ OpenFile
    \/ ProcessPage
    \/ PageFails
    \/ FinishFile
    \/ InstallBookmarks
    \/ MergeReturn
    \/ MergeExcept

MergeIdle ==
    /\ m_pc = "idle"
    /\ m_dict = <<>>
    /\ options = MergeOptionsDefault
    /\ files = <<>>
    /\ output_pdf = <<>>
    /\ output_closed = FALSE
    /\ outline = <<>>
    /\ outline_sets = 0
    /\ source_pdfs = <<>>
    /\ open_handles = {}
    /\ total_page_number = 0
    /\ total_pages_processed = 0
    /\ current_page = 0
    /\ toc_page_count = 0
    /\ file_info = <<>>
    /\ idx = 0
    /\ page_num = 0
    /\ start_page_idx = 0
    /\ m_exc = "none"
    /\ headers_at_start = FALSE


\* --------------------------------------------------- utils/ocr_utils.py
Positions == {"top-center", "bottom-center", "top-right", "bottom-right"}

\* A page, as far as detection reads it: at each candidate region nothing,
\* a number in the digital text layer, or a number only visible in a scan;
\* whether detect_pdf_type calls the page image-based; whether reading the
\* page raises.
Pages ==
    [content : [Positions -> {"empty", "digital", "scanned"}],
     image_based : BOOLEAN, broken : BOOLEAN]

PreferredValues == Positions \cup {"center"}

\* the detection rectangle chosen for a position (else: top-center)
DetectRegion(position) ==
    IF position \in Positions THEN position ELSE "top-center"

\* detect_existing_page_numbers: utils/ocr_utils.py matches the clipped
\* text only; app.py also OCRs the region of an image-based page.  Any
\* exception yields False.
detect_existing_page_numbers(impl, page, position) ==
    IF page.broken THEN FALSE
    ELSE \/ page.content[DetectRegion(position)] = "digital"
         \/ /\ impl = "app"
            /\ page.image_based
            /\ page.content[DetectRegion(position)] = "scanned"

positions_to_try_BottomFirst(preferred_position) ==
    <<preferred_position, "bottom-right", "top-right", "bottom-center",
      "top-center">>

positions_to_try(preferred_position) ==
    <<preferred_position, "top-right", "bottom-right", "bottom-center",
      "top-center">>

\* the position returned when every candidate conflicts
FallbackPosition_Preferred(preferred_position) == preferred_position

FallbackPosition(preferred_position) == "top-right"

RECURSIVE FirstFree(_, _, _, _)
FirstFree(impl, page, tries, preferred_position) ==
    IF tries = <<>> THEN FallbackPosition(preferred_position)
    ELSE IF ~detect_existing_page_numbers(impl, page, Head(tries))
         THEN Head(tries)
         ELSE FirstFree(impl, page, Tail(tries), preferred_position)

get_safe_page_number_position(impl, page, preferred_position) ==
    FirstFree(impl, page, positions_to_try(preferred_position),
              preferred_position)

PlacerInit ==
    /\ p_pc = "call"
    /\ p_impl \in {"utils", "app"}
    /\ p_page \in Pages
    /\ p_preferred \in PreferredValues
    /\ p_result = "none"

PlacerIdle ==
    /\ p_pc = "idle"
    /\ p_impl = "utils"
    /\ p_page = [content |-> [q \in Positions |-> "empty"],
                 image_based |-> FALSE, broken |-> FALSE]
    /\ p_preferred = "top-center"
    /\ p_result = "none"

\* utils/ocr_utils.py: get_safe_page_number_position
SafePositionUtils ==
    /\ p_pc = "call"
    /\ p_impl = "utils"
    /\ p_result' = get_safe_page_number_position("utils", p_page, p_preferred)
    /\ p_pc' = "done"
    /\ UNCHANGED <<not_placer, p_impl, p_page, p_preferred>>

\* app.py: get_safe_page_number_position
SafePositionApp ==
    /\ p_pc = "call"
    /\ p_impl = "app"
    /\ p_result' = get_safe_page_number_position("app", p_page, p_preferred)
    /\ p_pc' = "done"
    /\ UNCHANGED <<not_placer, p_impl, p_page, p_preferred>>

PlacerNext ==
    \/ SafePositionUtils
    \/ SafePositionApp

\* --------------------------------- core/normalize.py, normalize_options.py
NormalizeOptionsDefault ==
    [page_size |-> "letter", orientation |-> "portrait", add_ocr |-> FALSE,
     force_ocr |-> FALSE, custom_width |-> 612, custom_height |-> 792]

NormalizeOptions_validate(o) ==
    /\ o.page_size \in {"letter", "legal", "A4", "A3", "A5", "custom"}
    /\ o.orientation \in {"portrait", "landscape"}
    /\ ~(o.custom_width <= 0 \/ o.custom_height <= 0)

\* Config.PAGE_SIZES
PAGE_SIZES ==
    ("letter" :> <<612, 792>>) @@ ("letter-landscape" :> <<792, 612>>) @@
    ("legal" :> <<612, 1008>>) @@ ("legal-landscape" :> <<1008, 612>>) @@
    ("A4" :> <<595, 842>>) @@ ("a4" :> <<595, 842>>) @@
    ("a4-landscape" :> <<842, 595>>) @@
    ("A3" :> <<842, 1191>>) @@ ("a3" :> <<842, 1191>>) @@
    ("a3-landscape" :> <<1191, 842>>) @@
    ("A5" :> <<420, 595>>) @@ ("a5" :> <<420, 595>>)

\* str.lower() on the option strings the model draws
Lower(str) ==
    CASE str = "A4" -> "a4"
      [] str = "A3" -> "a3"
      [] str = "A5" -> "a5"
      [] OTHER -> str

\* PDFNormalizer._get_target_dimensions
page_size_key(o) == Lower(o.page_size) \o "-" \o Lower(o.orientation)

get_target_dimensions(o) ==
    IF o.page_size = "custom"
    THEN IF Lower(o.orientation) = "landscape"
         THEN <<o.custom_height, o.custom_width>>
         ELSE <<o.custom_width, o.custom_height>>
    ELSE IF page_size_key(o) \in DOMAIN PAGE_SIZES
         THEN PAGE_SIZES[page_size_key(o)]
         ELSE PAGE_SIZES["letter"]

\* utils/pdf_utils.py has_text_layer takes a file path and opens it; any
\* exception yields False.  _add_ocr_to_page hands it a fitz.Page, which
\* fitz.open cannot open.
has_text_layer(arg) ==
    IF arg.is_path THEN \E i \in 1..Min2(3, Len(arg.pages)) : arg.pages[i].text
    ELSE FALSE

\* _add_ocr_to_page: is perform_ocr_on_page called for this source page
OcrRuns(o, source_page) ==
    ~has_text_layer([is_path |-> FALSE, pages |-> <<source_page>>]) \/ o.force_ocr

\* _process_page, lines 91-98: a rotated source page is set to rotation 0
Derotate(source_page) ==
    IF source_page.rotation # 0
    THEN [source_page EXCEPT !.rotation = 0]
    ELSE source_page

\* ------------------------------------------------------ normalize inputs
SourcePages == [rotation : {0, 90, 180, 270}, text : BOOLEAN]

SourceSizes == {<<612, 792>>, <<842, 595>>}

\* fail_at = k: processing page k raises; 0: no page fails
SourceDocs ==
    UNION {[kind : {"ok"}, size : SourceSizes, pages : [1..n -> SourcePages],
            fail_at : 0..n] : n \in 1..MaxNormPages}
    \cup [kind : {"unreadable"}, size : {<<612, 792>>}, pages : {<<>>},
          fail_at : {0}]

NormalizeOptionSets ==
    [page_size : {"letter", "legal", "A4", "A3", "A5", "tabloid"},
     orientation : {"portrait", "landscape"},
     add_ocr : BOOLEAN, force_ocr : {FALSE},
     custom_width : {612}, custom_height : {792}]
    \cup [page_size : {"custom"}, orientation : {"portrait", "landscape"},
          add_ocr : {TRUE}, force_ocr : BOOLEAN,
          custom_width : {612, 400}, custom_height : {792}]

NormalizeInit ==
    /\ n_pc = "start"
    /\ n_options \in NormalizeOptionSets
    /\ n_doc \in SourceDocs
    /\ n_source = n_doc.pages
    /\ n_source_open = FALSE
    /\ n_output = <<>>
    /\ n_target = <<0, 0>>
    /\ n_page_num = 0
    /\ n_exc = "none"

NormalizeIdle ==
    /\ n_pc = "idle"
    /\ n_options = NormalizeOptionsDefault
    /\ n_doc = [kind |-> "unreadable", size |-> <<612, 792>>, pages |-> <<>>,
                fail_at |-> 0]
    /\ n_source = <<>>
    /\ n_source_open = FALSE
    /\ n_output = <<>>
    /\ n_target = <<0, 0>>
    /\ n_page_num = 0
    /\ n_exc = "none"

\* lines 37-47: both documents are opened, the target size is computed
NormalizeOpen ==
    /\ n_pc = "start"
    /\ n_doc.kind = "ok"
    /\ n_source_open' = TRUE
    /\ n_target' = get_target_dimensions(n_options)
    /\ n_page_num' = 0
    /\ n_pc' = "pages"
    /\ UNCHANGED <<not_normalize, n_options, n_doc, n_source, n_output, n_exc>>

\* line 37 raising
NormalizeOpenFails ==
    /\ n_pc = "start"
    /\ n_doc.kind = "unreadable"
    /\ n_exc' = "FileDataError"
    /\ n_pc' = "except"
    /\ UNCHANGED <<not_normalize, n_options, n_doc, n_source, n_source_open,
                   n_output, n_target, n_page_num>>

\* lines 49-57, one iteration
NormalizePage ==
    /\ n_pc = "pages"
    /\ n_page_num < Len(n_source)
    /\ n_doc.fail_at # n_page_num + 1
    /\ n_source' = [n_source EXCEPT ![n_page_num + 1] = Derotate(@)]
    /\ n_output' = Append(n_output,
                      [width |-> n_target[1], height |-> n_target[2],
                       ocr |-> n_options.add_ocr
                               /\ OcrRuns(n_options, n_source'[n_page_num + 1])])
    /\ n_page_num' = n_page_num + 1
    /\ UNCHANGED <<not_normalize, n_pc, n_options, n_doc, n_source_open,
                   n_target, n_exc>>

\* the same iteration with show_pdf_page raising, after new_page (line 51)
\* and set_rotation (line 95)
NormalizePageFails ==
    /\ n_pc = "pages"
    /\ n_page_num < Len(n_source)
    /\ n_doc.fail_at = n_page_num + 1
    /\ n_source' = [n_source EXCEPT ![n_page_num + 1] = Derotate(@)]
    /\ n_output' = Append(n_output,
                      [width |-> n_target[1], height |-> n_target[2],
                       ocr |-> FALSE])
    /\ n_exc' = "RuntimeError"
    /\ n_pc' = "except"
    /\ UNCHANGED <<not_normalize, n_options, n_doc, n_source_open, n_target,
                   n_page_num>>

\* lines 59-60
NormalizeReturn ==
    /\ n_pc = "pages"
    /\ n_page_num = Len(n_source)
    /\ n_source_open' = FALSE
    /\ n_pc' = "returned"
    /\ UNCHANGED <<not_normalize, n_options, n_doc, n_source, n_output,
                   n_target, n_page_num, n_exc>>

\* lines 62-63: the except clause raises PDFNormalizationError; there is
\* no finally clause
NormalizeExcept ==
    /\ n_pc = "except"
    /\ n_exc' = "PDFNormalizationError"
    /\ n_pc' = "raised"
    /\ UNCHANGED <<not_normalize, n_options, n_doc, n_source, n_source_open,
                   n_output, n_target, n_page_num>>

NormalizeNext ==
    \/ NormalizeOpen
    \/ NormalizeOpenFails
    \/ NormalizePage
    \/ NormalizePageFails
    \/ NormalizeReturn
    \/ NormalizeExcept

\* ----------------------- services/compress_service.py, app.py (legacy)
Max2(a, b) == IF a >= b THEN a ELSE b

\* models/compress_options.py: CompressionOptions.from_dict
CompressionOptions_from_dict(d) ==
    IF DOMAIN d = {}
    THEN [compression_level |-> "medium", image_quality |-> 85,
          target_dpi |-> 150, downsample_images |-> TRUE]
    ELSE LET level == Get(d, "compression_level", "medium") IN
         [compression_level |-> level,
          image_quality |-> IF level = "low" THEN Get(d, "image_quality", 95)
                            ELSE IF level = "high" THEN Get(d, "image_quality", 75)
                            ELSE Get(d, "image_quality", 85),
          target_dpi |-> IF level = "low" THEN Get(d, "target_dpi", 200)
                         ELSE IF level = "high" THEN Get(d, "target_dpi", 120)
                         ELSE Get(d, "target_dpi", 150),
          downsample_images |-> Get(d, "downsample_images", TRUE)]

\* lines 128-145 of compress_pdf_enhanced: the level alone sets the values
EnhancedSettings(d) ==
    LET level == Get(d, "compression_level", "medium") IN
    [level |-> level,
     image_quality |-> IF level = "low" THEN 80
                       ELSE IF level = "high" THEN 65 ELSE 75,
     target_dpi |-> IF level = "low" THEN 150
                    ELSE IF level = "high" THEN 120 ELSE 150,
     deflate |-> TRUE,
     downsample |-> Get(d, "downsample_images", TRUE)]

\* app.py 824-859 of compress_pdf_smart; sizes are in KB, so 0.5 MB is 512
\* and 2.0 MB is 2048
SmartSettings(d, original_size) ==
    LET level == Get(d, "compression_level", "medium")
        q == IF level = "low" THEN Get(d, "image_quality", 95)
             ELSE IF level = "high" THEN Get(d, "image_quality", 75)
             ELSE Get(d, "image_quality", 85)
        t == IF level = "low" THEN Get(d, "target_dpi", 200)
             ELSE IF level = "high" THEN Get(d, "target_dpi", 120)
             ELSE Get(d, "target_dpi", 150)
        defl == level # "low"
    IN [level |-> level,
        image_quality |-> IF original_size < 512 THEN Max2(q, 90)
                          ELSE IF original_size < 2048 THEN Max2(q, 85) ELSE q,
        target_dpi |-> IF original_size < 512 THEN Max2(t, 200)
                       ELSE IF original_size < 2048 THEN Max2(t, 150) ELSE t,
        deflate |-> IF original_size < 512 THEN FALSE ELSE defl,
        downsample |-> Get(d, "downsample_images", TRUE)]

Untouched(why) ==
    [replaced |-> FALSE, resized |-> FALSE, should_resize |-> FALSE,
     scale |-> <<1, 1>>, outcome |-> why]

\* current_dpi = max(original_width / 8.5, original_height / 11), as a
\* fraction <<numerator, denominator>>
EnhancedDpi(img) ==
    IF 2 * img.width * 11 >= 17 * img.height
    THEN <<2 * img.width, 17>>
    ELSE <<img.height, 11>>

\* scale_factor = min(target_dpi / current_dpi, 0.7), as a fraction
EnhancedScale(target_dpi, dpi) ==
    IF target_dpi * dpi[2] * 10 <= 7 * dpi[1]
    THEN <<target_dpi * dpi[2], dpi[1]>>
    ELSE <<7, 10>>

\* compress_service.py 181-252: one embedded image
EnhancedImage(img, st) ==
    IF img.bad THEN Untouched("skipped")
    ELSE IF img.size < 5120 THEN Untouched("skipped")
    ELSE
      LET dpi == EnhancedDpi(img)
          should_resize == st.downsample /\ dpi[1] > st.target_dpi * dpi[2]
          scale == EnhancedScale(st.target_dpi, dpi)
          new_width == (img.width * scale[1]) \div scale[2]
          new_height == (img.height * scale[1]) \div scale[2]
          resized == should_resize /\ new_width > 300 /\ new_height > 300
          replace == should_resize \/ img.reenc * 100 < img.size * 95
      IN [replaced |-> replace, resized |-> resized,
          should_resize |-> should_resize,
          scale |-> IF should_resize THEN scale ELSE <<1, 1>>,
          outcome |-> IF replace THEN "processed" ELSE "skipped"]

\* app.py 886-937: one embedded image
SmartImage(img, st) ==
    IF img.bad THEN Untouched("skipped")
    ELSE IF img.width < 100 \/ img.height < 100 THEN Untouched("skipped")
    ELSE
      LET should_resize == st.downsample /\ 2 * img.width > 17 * st.target_dpi
          replace == img.reenc < img.size
      IN [replaced |-> replace, resized |-> should_resize,
          should_resize |-> should_resize,
          scale |-> IF should_resize
                    THEN <<17 * st.target_dpi, 2 * img.width>> ELSE <<1, 1>>,
          outcome |-> IF replace THEN "processed" ELSE "skipped"]

CountWhere(seq, P(_)) == Cardinality({i \in 1..Len(seq) : P(seq[i])})

ImageCounts(out) ==
    [processed |-> CountWhere(out, LAMBDA r : r.outcome = "processed"),
     downsampled |-> CountWhere(out, LAMBDA r : r.resized),
     skipped |-> CountWhere(out, LAMBDA r : r.outcome = "skipped")]

\* compress_service.py 298-305: the comparison with 102 % of the original
EnhancedSuccess(compressed_size, original_size) ==
    IF compressed_size * 100 >= original_size * 102 THEN TRUE ELSE TRUE

\* compress_service.py 307-308: the temp file becomes the output whatever
\* its size
EnhancedDelivery(compressed_size, original_size) ==
    [kind |-> "compressed", size |-> compressed_size]

\* app.py 957-968: the original is copied when nothing was gained
SmartDelivery(compressed_size, original_size) ==
    IF compressed_size >= original_size
    THEN [kind |-> "original", size |-> original_size]
    ELSE [kind |-> "compressed", size |-> compressed_size]

\* ------------------------------------------------------- compress inputs
ImageShapes ==
    {[size |-> 4000, width |-> 2000, height |-> 2000],
     [size |-> 6000, width |-> 90, height |-> 90],
     [size |-> 100000, width |-> 2000, height |-> 2000],
     [size |-> 100000, width |-> 1100, height |-> 1100],
     [size |-> 100000, width |-> 2000, height |-> 400],
     [size |-> 100000, width |-> 400, height |-> 400]}

\* the byte size of the re-encoded image: half, just under, or above
ReencodedSizes(size) == {size \div 2, (size * 97) \div 100, size + 1000}

Images ==
    UNION {[size : {sh.size}, width : {sh.width}, height : {sh.height},
            reenc : ReencodedSizes(sh.size), bad : {FALSE}] :
           sh \in ImageShapes}
    \cup {[size |-> 100000, width |-> 2000, height |-> 2000,
           reenc |-> 0, bad |-> TRUE]}

ImageLists == UNION {[1..n -> Images] : n \in 0..MaxImages}

\* the input file (sizes in KB) and what saving it again yields
InputFiles ==
    UNION {[original_size : {o}, images : ImageLists,
            save : {"ok", "raises"}, fallback : {"ok"},
            saved_size : {o - 100, o, o + 1, o + (o \div 50), o + 100}]
           \cup [original_size : {o}, images : ImageLists,
                 save : {"raises"}, fallback : {"raises"},
                 saved_size : {o}] : o \in {400, 3000}}

CompressDicts ==
    {l @@ q @@ d :
        l \in KeyChoice("compression_level", {"low", "medium", "high"}),
        q \in {<<>>, ("image_quality" :> 50) @@ ("target_dpi" :> 100)},
        d \in KeyChoice("downsample_images", {FALSE})}

NoSettings ==
    [level |-> "medium", image_quality |-> 0, target_dpi |-> 0,
     deflate |-> FALSE, downsample |-> FALSE]
NoCounts == [processed |-> 0, downsampled |-> 0, skipped |-> 0]
NoDelivery == [kind |-> "none", size |-> 0]
NoStats == [success |-> FALSE, original_size |-> 0, compressed_size |-> 0]

CompressInit ==
    /\ c_pc = "start"
    /\ c_impl \in {"enhanced", "smart"}
    /\ c_options \in CompressDicts
    /\ c_file \in InputFiles
    /\ c_settings = NoSettings
    /\ c_images_out = <<>>
    /\ c_counts = NoCounts
    /\ c_delivered = NoDelivery
    /\ c_stats = NoStats

CompressIdle ==
    /\ c_pc = "idle"
    /\ c_impl = "enhanced"
    /\ c_options = <<>>
    /\ c_file = [original_size |-> 400, images |-> <<>>, save |-> "ok",
                 fallback |-> "ok", saved_size |-> 400]
    /\ c_settings = NoSettings
    /\ c_images_out = <<>>
    /\ c_counts = NoCounts
    /\ c_delivered = NoDelivery
    /\ c_stats = NoStats

\* compress_service.py 128-160 / app.py 824-865
CompressSettings ==
    /\ c_pc = "start"
    /\ c_settings' = IF c_impl = "enhanced"
                     THEN EnhancedSettings(c_options)
                     ELSE SmartSettings(c_options, c_file.original_size)
    /\ c_pc' = "images"
    /\ UNCHANGED <<not_compress, c_impl, c_options, c_file, c_images_out,
                   c_counts, c_delivered, c_stats>>

\* compress_service.py 173-260 / app.py 877-945: the loop over the images
CompressImages ==
    /\ c_pc = "images"
    /\ c_images_out' =
          [i \in 1..Len(c_file.images) |->
              IF c_impl = "enhanced"
              THEN EnhancedImage(c_file.images[i], c_settings)
              ELSE SmartImage(c_file.images[i], c_settings)]
    /\ c_counts' = ImageCounts(c_images_out')
    /\ c_pc' = "save"
    /\ UNCHANGED <<not_compress, c_impl, c_options, c_file, c_settings,
                   c_delivered, c_stats>>

\* compress_service.py 273-333: save, compare, rename, report
EnhancedSave ==
    /\ c_pc = "save"
    /\ c_impl = "enhanced"
    /\ c_file.save = "ok"
    /\ c_delivered' = EnhancedDelivery(c_file.saved_size, c_file.original_size)
    /\ c_stats' = [success |-> EnhancedSuccess(c_file.saved_size,
                                               c_file.original_size),
                   original_size |-> c_file.original_size,
                   compressed_size |-> c_file.saved_size]
    /\ c_pc' = "done"
    /\ UNCHANGED <<not_compress, c_impl, c_options, c_file, c_settings,
                   c_images_out, c_counts>>

\* compress_service.py 335-362: doc.save raised, the input is saved again
\* with garbage=3 straight to the output path
EnhancedFallback ==
    /\ c_pc = "save"
    /\ c_impl = "enhanced"
    /\ c_file.save = "raises"
    /\ c_file.fallback = "ok"
    /\ c_delivered' = [kind |-> "fallback", size |-> c_file.saved_size]
    /\ c_stats' = [success |-> TRUE,
                   original_size |-> c_file.original_size,
                   compressed_size |-> c_file.saved_size]
    /\ c_pc' = "done"
    /\ UNCHANGED <<not_compress, c_impl, c_options, c_file, c_settings,
                   c_images_out, c_counts>>

\* compress_service.py 363-368: the fallback raised too
EnhancedFails ==
    /\ c_pc = "save"
    /\ c_impl = "enhanced"
    /\ c_file.save = "raises"
    /\ c_file.fallback = "raises"
    /\ c_stats' = NoStats
    /\ c_pc' = "failed"
    /\ UNCHANGED <<not_compress, c_impl, c_options, c_file, c_settings,
                   c_images_out, c_counts, c_delivered>>

\* app.py 947-990
SmartSave ==
    /\ c_pc = "save"
    /\ c_impl = "smart"
    /\ c_file.save = "ok"
    /\ c_delivered' = SmartDelivery(c_file.saved_size, c_file.original_size)
    /\ c_stats' = [success |-> TRUE,
                   original_size |-> c_file.original_size,
                   compressed_size |-> c_delivered'.size]
    /\ c_pc' = "done"
    /\ UNCHANGED <<not_compress, c_impl, c_options, c_file, c_settings,
                   c_images_out, c_counts>>

\* app.py 950-953 raising: compress_pdf_smart has no handler
SmartFails ==
    /\ c_pc = "save"
    /\ c_impl = "smart"
    /\ c_file.save = "raises"
    /\ c_stats' = NoStats
    /\ c_pc' = "failed"
    /\ UNCHANGED <<not_compress, c_impl, c_options, c_file, c_settings,
                   c_images_out, c_counts, c_delivered>>

CompressNext ==
    \/ CompressSettings
    \/ CompressImages
    \/ EnhancedSave
    \/ EnhancedFallback
    \/ EnhancedFails
    \/ SmartSave
    \/ SmartFails

\* ------------- services/normalize_service.py, compress_service.py: batch
\* A file config: "ok"; "missing": the path names no file; "unreadable":
\* the file is no PDF; "nopath": the config has no "path" key.
ConfigKinds == {"ok", "missing", "unreadable", "nopath"}

ConfigLists == UNION {[1..n -> ConfigKinds] : n \in 0..MaxBatch}

\* NormalizeService.normalize_file up to its return statements:
\* validate_pdf_files raises ValueError for a config without path or for a
\* path that does not exist; analyze() of an unreadable file ends in the
\* handler for Exception
normalize_file_result(i, kind) ==
    [file |-> i,
     success |-> kind = "ok",
     error_type |-> CASE kind = "ok" -> "none"
                      [] kind \in {"missing", "nopath"} -> "validation"
                      [] OTHER -> "internal"]

\* the finally clause of normalize_file reads file_config["path"]: without
\* the key it raises KeyError in place of the return
normalize_file_raises(kind) == kind = "nopath"

\* CompressService.compress_file: every failure, the missing key included,
\* happens inside its try and is returned as a failure record
compress_file_result(i, kind) ==
    [file |-> i,
     success |-> kind = "ok",
     error_type |-> IF kind = "ok" THEN "none" ELSE "error"]

NoReturn == [success |-> FALSE, shape |-> "none", results |-> <<>>, entry |-> 0]

BatchInit ==
    /\ b_pc = "loop"
    /\ b_impl \in {"normalize", "compress"}
    /\ b_configs \in ConfigLists
    /\ b_i = 1
    /\ b_results = <<>>
    /\ b_ok_files = <<>>
    /\ b_called = {}
    /\ b_return = NoReturn

BatchIdle ==
    /\ b_pc = "idle"
    /\ b_impl = "normalize"
    /\ b_configs = <<>>
    /\ b_i = 1
    /\ b_results = <<>>
    /\ b_ok_files = <<>>
    /\ b_called = {}
    /\ b_return = NoReturn

\* normalize_service.py 114-123, one iteration
NormalizeBatchFile ==
    /\ b_pc = "loop"
    /\ b_impl = "normalize"
    /\ b_i <= Len(b_configs)
    /\ ~normalize_file_raises(b_configs[b_i])
    /\ LET result == normalize_file_result(b_i, b_configs[b_i]) IN
          /\ b_ok_files' = IF result.success THEN Append(b_ok_files, b_i)
                           ELSE b_ok_files
          /\ b_results' = Append(b_results, result)
    /\ b_called' = b_called \cup {b_i}
    /\ b_i' = b_i + 1
    /\ UNCHANGED <<not_batch, b_pc, b_impl, b_configs, b_return>>

\* normalize_file raised: lines 160-166 end the batch
NormalizeBatchAbort ==
    /\ b_pc = "loop"
    /\ b_impl = "normalize"
    /\ b_i <= Len(b_configs)
    /\ normalize_file_raises(b_configs[b_i])
    /\ b_called' = b_called \cup {b_i}
    /\ b_return' = [success |-> FALSE, shape |-> "internal",
                    results |-> <<>>, entry |-> 0]
    /\ b_pc' = "done"
    /\ UNCHANGED <<not_batch, b_impl, b_configs, b_i, b_results, b_ok_files>>

\* normalize_service.py 125-158
NormalizeBatchFinish ==
    /\ b_pc = "loop"
    /\ b_impl = "normalize"
    /\ b_i > Len(b_configs)
    /\ b_return' =
          IF Len(b_ok_files) > 1
          THEN [success |-> TRUE, shape |-> "zip", results |-> b_results,
                entry |-> 0]
          ELSE IF Len(b_ok_files) > 0
          THEN [success |-> b_results[1].success, shape |-> "single",
                results |-> <<>>, entry |-> b_results[1].file]
          ELSE [success |-> FALSE, shape |-> "processing",
                results |-> <<>>, entry |-> 0]
    /\ b_pc' = "done"
    /\ UNCHANGED <<not_batch, b_impl, b_configs, b_i, b_results, b_ok_files,
                   b_called>>

\* compress_service.py 80-91, one iteration
CompressBatchFile ==
    /\ b_pc = "loop"
    /\ b_impl = "compress"
    /\ b_i <= Len(b_configs)
    /\ LET result == compress_file_result(b_i, b_configs[b_i]) IN
          /\ b_results' = IF result.success THEN Append(b_results, result)
                          ELSE b_results
          /\ b_ok_files' = IF result.success THEN Append(b_ok_files, b_i)
                           ELSE b_ok_files
    /\ b_called' = b_called \cup {b_i}
    /\ b_i' = b_i + 1
    /\ UNCHANGED <<not_batch, b_pc, b_impl, b_configs, b_return>>

\* compress_service.py 93-118
CompressBatchFinish ==
    /\ b_pc = "loop"
    /\ b_impl = "compress"
    /\ b_i > Len(b_configs)
    /\ b_return' =
          IF Len(b_ok_files) > 1
          THEN [success |-> TRUE, shape |-> "zip", results |-> b_results,
                entry |-> 0]
          ELSE IF Len(b_ok_files) > 0
          THEN [success |-> TRUE, shape |-> "single", results |-> b_results,
                entry |-> b_ok_files[1]]
          ELSE [success |-> FALSE, shape |-> "none", results |-> <<>>,
                entry |-> 0]
    /\ b_pc' = "done"
    /\ UNCHANGED <<not_batch, b_impl, b_configs, b_i, b_results, b_ok_files,
                   b_called>>

BatchNext ==
    \/ NormalizeBatchFile
    \/ NormalizeBatchAbort
    \/ NormalizeBatchFinish
    \/ CompressBatchFile
    \/ CompressBatchFinish

\* ======================================================= specifications
\* One specification per subsystem; the other subsystems stay idle.
\* ------------------------------------------- services/merge_service.py
\* A file config of a request: the keys it carries and the file behind
\* its path.
ServiceConfigs ==
    [kind : {"ok"}, pages : {1}, hdr : {FALSE},
     has_path : BOOLEAN, has_name : BOOLEAN]
    \cup [kind : {"missing", "corrupt"}, pages : {0}, hdr : {FALSE},
          has_path : {TRUE}, has_name : {TRUE}]

ServiceConfigLists == UNION {[1..n -> ServiceConfigs] : n \in 0..MaxFiles}

ServiceDicts ==
    {p @@ f @@ q :
        p \in KeyChoice("page_start", {0, 1}),
        f \in KeyChoice("scale_factor", {0, 150}),
        q \in KeyChoice("page_number_position", {"invalid-position"})}

\* PDFFile.from_dict reads data["path"]: KeyError without it; a missing
\* name falls back to the basename of the path.
PDFFile_from_dict_raises(config) == ~config.has_path

PDFFile_from_dict(config) ==
    [kind |-> config.kind, pages |-> config.pages, hdr |-> config.hdr]

\* PDFMerger.merge as merge_files sees it: it raises PDFMergeError when an
\* existing file cannot be opened, else returns the output document.
MergerRaises(fs) == \E i \in 1..Len(fs) : fs[i].kind = "corrupt"

MergerPageCount(fs, o) ==
    (IF o.add_toc /\ Len(fs) > 1 THEN TocInfoPageCount(fs) ELSE 0)
    + SumSeq([i \in 1..Len(fs) |->
                 IF Exists(fs[i]) THEN DocPageCount(fs[i]) ELSE 0])

\* Document.save refuses a document without pages (ValueError)
SaveRaises(doc) == doc.pages = 0

NoDocument == [pages |-> 0, open |-> FALSE, none |-> TRUE]

NoResult == [success |-> FALSE, pending |-> TRUE]

ServiceInit ==
    /\ s_pc = "call"
    /\ s_configs \in ServiceConfigLists
    /\ s_dict \in ServiceDicts
    /\ s_pdf_files = <<>>
    /\ s_merged_doc = NoDocument
    /\ s_exc = "none"
    /\ s_result = NoResult
    /\ s_saved = FALSE
    /\ s_removed = {}

ServiceIdle ==
    /\ s_pc = "idle"
    /\ s_configs = <<>>
    /\ s_dict = <<>>
    /\ s_pdf_files = <<>>
    /\ s_merged_doc = NoDocument
    /\ s_exc = "none"
    /\ s_result = NoResult
    /\ s_saved = FALSE
    /\ s_removed = {}

\* lines 45-49: the configs become PDFFile objects
ServiceConvert ==
    /\ s_pc = "call"
    /\ IF \E i \in 1..Len(s_configs) : PDFFile_from_dict_raises(s_configs[i])
       THEN /\ s_exc' = "KeyError"
            /\ s_pc' = "except"
            /\ UNCHANGED s_pdf_files
       ELSE /\ s_pdf_files' = [i \in 1..Len(s_configs) |->
                                  PDFFile_from_dict(s_configs[i])]
            /\ s_pc' = "merge"
            /\ UNCHANGED s_exc
    /\ UNCHANGED <<not_service, s_configs, s_dict, s_merged_doc, s_result,
                   s_saved, s_removed>>

\* lines 51-56: MergeOptions.from_dict, PDFMerger(merge_options).merge
ServiceMerge ==
    /\ s_pc = "merge"
    /\ IF MergerRaises(s_pdf_files)
       THEN /\ s_exc' = "PDFMergeError"
            /\ s_pc' = "except"
            /\ UNCHANGED s_merged_doc
       ELSE /\ s_merged_doc' =
                 [pages |-> MergerPageCount(s_pdf_files,
                                            MergeOptions_from_dict(s_dict)),
                  open |-> TRUE, none |-> FALSE]
            /\ s_pc' = "save"
            /\ UNCHANGED s_exc
    /\ UNCHANGED <<not_service, s_configs, s_dict, s_pdf_files, s_result,
                   s_saved, s_removed>>

\* lines 58-82: save, close, and the success record
ServiceSave ==
    /\ s_pc = "save"
    /\ IF SaveRaises(s_merged_doc)
       THEN /\ s_exc' = "ValueError"
            /\ s_pc' = "except"
            /\ UNCHANGED <<s_merged_doc, s_saved, s_result>>
       ELSE /\ s_saved' = TRUE
            /\ s_merged_doc' = NoDocument
            /\ s_result' = [success |-> TRUE,
                            page_count |-> s_merged_doc.pages,
                            file_count |-> Len(s_configs)]
            /\ s_pc' = "finally"
            /\ UNCHANGED s_exc
    /\ UNCHANGED <<not_service, s_configs, s_dict, s_pdf_files, s_removed>>

\* lines 84-89: every exception becomes a failure record
ServiceExcept ==
    /\ s_pc = "except"
    /\ s_result' = [success |-> FALSE, error |-> "Merge failed"]
    /\ s_pc' = "finally"
    /\ UNCHANGED <<not_service, s_configs, s_dict, s_pdf_files, s_merged_doc,
                   s_exc, s_saved, s_removed>>

\* lines 90-101: close the document if still open, remove the source files
ServiceFinally ==
    /\ s_pc = "finally"
    /\ s_merged_doc' = IF s_merged_doc.none THEN s_merged_doc
                       ELSE [s_merged_doc EXCEPT !.open = FALSE]
    /\ s_removed' = {i \in 1..Len(s_configs) : s_configs[i].has_path}
    /\ s_pc' = "returned"
    /\ UNCHANGED <<not_service, s_configs, s_dict, s_pdf_files, s_exc,
                   s_result, s_saved>>

ServiceNext ==
    \/ ServiceConvert
    \/ ServiceMerge
    \/ ServiceSave
    \/ ServiceExcept
    \/ ServiceFinally

\* ------------------------------- detect_pdf_type: pdf_utils.py and app.py
\* A page: the length of its text once stripped, the whitespace characters
\* around that text, its images, and whether get_text or the
\* '/Resources' lookup of app.py raises on this page object.
DetectPages ==
    [text : {0, 99, 100}, pad : {0, 2}, images : 0..MaxImages,
     get_text_raises : BOOLEAN, lookup_raises : BOOLEAN]

\* len(page.get_text()) and len(page.get_text().strip())
RawTextLength(page) == page.text + page.pad
StrippedTextLength(page) == page.text

\* utils/pdf_utils.py: detect_pdf_type
detect_pdf_type_utils(page) ==
    IF page.get_text_raises
    THEN [type |-> "error", error |-> "get_text failed"]
    ELSE LET has_text == StrippedTextLength(page) > 0
             has_images == page.images > 0
         IN [type |-> IF has_text /\ ~has_images THEN "text"
                      ELSE IF has_images /\ ~has_text THEN "image"
                      ELSE IF has_text /\ has_images THEN "mixed"
                      ELSE "unknown",
             has_text |-> has_text,
             has_images |-> has_images,
             text_length |-> RawTextLength(page),
             image_count |-> page.images]

\* app.py: detect_pdf_type
detect_pdf_type_app(page) ==
    IF page.get_text_raises \/ page.lookup_raises
    THEN [is_image_based |-> TRUE, text_length |-> 0, image_count |-> 0,
          has_content |-> FALSE]
    ELSE [is_image_based |-> StrippedTextLength(page) < 100 /\ page.images > 0,
          text_length |-> StrippedTextLength(page),
          image_count |-> page.images,
          has_content |-> StrippedTextLength(page) > 0 \/ page.images > 0]

NoDetection == [pending |-> TRUE]

DetectInit ==
    /\ d_pc = "call"
    /\ d_impl \in {"utils", "app"}
    /\ d_page \in DetectPages
    /\ d_result = NoDetection

DetectIdle ==
    /\ d_pc = "idle"
    /\ d_impl = "utils"
    /\ d_page = [text |-> 0, pad |-> 0, images |-> 0,
                 get_text_raises |-> FALSE, lookup_raises |-> FALSE]
    /\ d_result = NoDetection

DetectUtils ==
    /\ d_pc = "call"
    /\ d_impl = "utils"
    /\ d_result' = detect_pdf_type_utils(d_page)
    /\ d_pc' = "done"
    /\ UNCHANGED <<not_detect, d_impl, d_page>>

DetectApp ==
    /\ d_pc = "call"
    /\ d_impl = "app"
    /\ d_result' = detect_pdf_type_app(d_page)
    /\ d_pc' = "done"
    /\ UNCHANGED <<not_detect, d_impl, d_page>>

DetectNext ==
    \/ DetectUtils
    \/ DetectApp

\* ------------- routes/normalize.py, routes/compress.py: shared services
Requests == {"A", "B"}

\* models/normalize_options.py: NormalizeOptions.from_dict
NormalizeOptions_from_dict(d) ==
    IF DOMAIN d = {} THEN NormalizeOptionsDefault
    ELSE [page_size |-> Get(d, "page_size", "letter"),
          orientation |-> Get(d, "orientation", "portrait"),
          add_ocr |-> Get(d, "add_ocr", FALSE),
          force_ocr |-> Get(d, "force_ocr", FALSE),
          custom_width |-> Get(d, "custom_width", 612),
          custom_height |-> Get(d, "custom_height", 792)]

NormalizeRequestDicts ==
    {s @@ o : s \in KeyChoice("page_size", {"legal", "A4"}),
              o \in KeyChoice("add_ocr", {TRUE})}

CompressRequestDicts == KeyChoice("compression_level", {"low", "high"})

\* what a service attribute or a local holds before it is assigned
Unset == [unset |-> TRUE]

\* CompressService.__init__: self.options = CompressionOptions()
ServiceDefaultOptions == CompressionOptions_from_dict(<<>>)

\* compress_file: CompressionOptions(compression_level=options.get(...))
CompressFileOptions(d) ==
    [ServiceDefaultOptions EXCEPT
        !.compression_level = Get(d, "compression_level", "medium")]

RequestsInit ==
    /\ q_impl \in {"normalize", "compress"}
    /\ q_dicts \in [Requests -> IF q_impl = "normalize"
                                THEN NormalizeRequestDicts
                                ELSE CompressRequestDicts]
    /\ q_dicts["A"] # q_dicts["B"]
    /\ q_pc = [r \in Requests |-> "start"]
    /\ q_local = [r \in Requests |-> Unset]
    /\ q_shared = IF q_impl = "normalize" THEN Unset ELSE ServiceDefaultOptions
    /\ q_used = [r \in Requests |-> Unset]
    /\ q_report = [r \in Requests |-> Unset]

RequestsIdle ==
    /\ q_impl = "normalize"
    /\ q_dicts = [r \in Requests |-> <<>>]
    /\ q_pc = [r \in Requests |-> "idle"]
    /\ q_local = [r \in Requests |-> Unset]
    /\ q_shared = Unset
    /\ q_used = [r \in Requests |-> Unset]
    /\ q_report = [r \in Requests |-> Unset]

\* normalize_file lines 35-37: the request's own NormalizeOptions
NormalizePrepare(r) ==
    /\ q_impl = "normalize"
    /\ q_pc[r] = "start"
    /\ q_local' = [q_local EXCEPT ![r] = NormalizeOptions_from_dict(q_dicts[r])]
    /\ q_pc' = [q_pc EXCEPT ![r] = "store"]
    /\ UNCHANGED <<not_requests, q_impl, q_dicts, q_shared, q_used, q_report>>

\* line 40: self.normalizer = PDFNormalizer(normalize_options)
NormalizeStore(r) ==
    /\ q_impl = "normalize"
    /\ q_pc[r] = "store"
    /\ q_shared' = q_local[r]
    /\ q_pc' = [q_pc EXCEPT ![r] = "load"]
    /\ UNCHANGED <<not_requests, q_impl, q_dicts, q_local, q_used, q_report>>

\* line 41: self.normalizer.normalize(pdf_file)
NormalizeRun(r) ==
    /\ q_impl = "normalize"
    /\ q_pc[r] = "load"
    /\ q_used' = [q_used EXCEPT ![r] = q_shared]
    /\ q_pc' = [q_pc EXCEPT ![r] = "report"]
    /\ UNCHANGED <<not_requests, q_impl, q_dicts, q_local, q_shared, q_report>>

\* lines 58-68: target_size and ocr_performed come from the local options
NormalizeReport(r) ==
    /\ q_impl = "normalize"
    /\ q_pc[r] = "report"
    /\ q_report' = [q_report EXCEPT ![r] = q_local[r]]
    /\ q_pc' = [q_pc EXCEPT ![r] = "done"]
    /\ UNCHANGED <<not_requests, q_impl, q_dicts, q_local, q_shared, q_used>>

\* compress_file lines 31-35: a non-empty dict replaces self.options
CompressStore(r) ==
    /\ q_impl = "compress"
    /\ q_pc[r] = "start"
    /\ q_shared' = IF DOMAIN q_dicts[r] # {}
                   THEN CompressFileOptions(q_dicts[r])
                   ELSE q_shared
    /\ q_pc' = [q_pc EXCEPT ![r] = "run"]
    /\ UNCHANGED <<not_requests, q_impl, q_dicts, q_local, q_used, q_report>>

\* line 41: compress_pdf_enhanced reads the level from the dict it is given
CompressRun(r) ==
    /\ q_impl = "compress"
    /\ q_pc[r] = "run"
    /\ q_used' = [q_used EXCEPT ![r] =
                     [compression_level |-> EnhancedSettings(q_dicts[r]).level]]
    /\ q_pc' = [q_pc EXCEPT ![r] = "report"]
    /\ UNCHANGED <<not_requests, q_impl, q_dicts, q_local, q_shared, q_report>>

\* lines 53-67: "compression_level": self.options.compression_level
CompressReport(r) ==
    /\ q_impl = "compress"
    /\ q_pc[r] = "report"
    /\ q_report' = [q_report EXCEPT ![r] =
                       [compression_level |-> q_shared.compression_level]]
    /\ q_pc' = [q_pc EXCEPT ![r] = "done"]
    /\ UNCHANGED <<not_requests, q_impl, q_dicts, q_local, q_shared, q_used>>

RequestsNext ==
    \/ \E r \in Requests : NormalizePrepare(r)
    \/ \E r \in Requests : NormalizeStore(r)
    \/ \E r \in Requests : NormalizeRun(r)
    \/ \E r \in Requests : NormalizeReport(r)
    \/ \E r \in Requests : CompressStore(r)
    \/ \E r \in Requests : CompressRun(r)
    \/ \E r \in Requests : CompressReport(r)

\* ------------------------- core/merge.py: a PDFMerger that is used again
ReuseFiles == [kind : {"ok"}, pages : {1}, hdr : BOOLEAN]

ReuseFileLists == UNION {[1..n -> ReuseFiles] : n \in 0..MaxFiles}

ReuseDicts == KeyChoice("add_headers", {TRUE})

ReuseInit ==
    /\ r_pc = "new"
    /\ r_dict \in ReuseDicts
    /\ r_constructed = MergeOptions_from_dict(r_dict)
    /\ r_options = MergeOptionsDefault
    /\ r_calls = <<>>

ReuseIdle ==
    /\ r_pc = "idle"
    /\ r_dict = <<>>
    /\ r_constructed = MergeOptionsDefault
    /\ r_options = MergeOptionsDefault
    /\ r_calls = <<>>

\* PDFMerger.__init__: self.options = options or MergeOptions()
ReuseConstruct ==
    /\ r_pc = "new"
    /\ r_options' = r_constructed
    /\ r_pc' = "ready"
    /\ UNCHANGED <<not_reuse, r_dict, r_constructed, r_calls>>

\* one whole merge(files) call on the merger: the header check of lines
\* 73-81 and the mode every page of the call is processed in
ReuseMerge ==
    /\ r_pc = "ready"
    /\ Len(r_calls) < MaxCalls
    /\ \E fs \in ReuseFileLists :
          /\ r_options' = OptionsAfterHeaderCheck(r_options, fs)
          /\ r_calls' = Append(r_calls,
                           [files |-> fs, mode |-> PageMode(r_options')])
    /\ UNCHANGED <<not_reuse, r_pc, r_dict, r_constructed>>

ReuseNext ==
    \/ ReuseConstruct
    \/ ReuseMerge

\* ------------- core/merge.py: headers and page number of one output page
TopPositions == {"top-center", "top-right"}

StampSources ==
    [content : [Positions -> {"empty", "digital"}],
     image_based : {FALSE}, broken : {FALSE}]

\* The header lines of a file, painted from (30, 25) in 10 pt: blank, or a
\* text whose digits reach the detection rectangles listed in digits_in
\* (top-center begins at x = 256, top-right at x = 512).
HeaderLines ==
    {[text |-> FALSE, digits_in |-> {}]}
    \cup [text : {TRUE}, digits_in : SUBSET TopPositions]

EmptyPage ==
    [content |-> [q \in Positions |-> "empty"], image_based |-> FALSE,
     broken |-> FALSE]

\* show_pdf_page(target_rect, ...): the source is scaled into a rectangle
\* that begins below header_space = 50, so nothing of it reaches the top
\* band (y 10..40) of the new page; what stood in its bottom band reaches
\* the bottom band of the new page when lands holds.
PlaceScaled(source, lands) ==
    [source EXCEPT !.content =
        [q \in Positions |->
            IF q \in TopPositions THEN "empty"
            ELSE IF lands THEN source.content[q] ELSE "empty"]]

\* _add_header_footer, lines 352-366: insert_text of the header lines
PaintHeaders(page, header) ==
    [page EXCEPT !.content =
        [q \in Positions |->
            IF q \in header.digits_in THEN "digital" ELSE page.content[q]]]

\* _add_page_number_only: the number is inserted at safe_position
PaintNumber(page, position) ==
    [page EXCEPT !.content =
        [q \in Positions |-> IF q = position THEN "digital" ELSE page.content[q]]]

\* the two implementations of the merge page transform
Implementations == {"core", "app"}

\* which get_safe_page_number_position the implementation calls
PlacerOf(impl) == IF impl = "core" THEN "utils" ELSE "app"

\* footer_space = 15 if add_footer_line else 5
footer_space(add_footer_line) == IF add_footer_line THEN 15 ELSE 5

\* the draw_line calls of the header/footer routine: the header separator
\* at y = 45 when a header line is present; the footer line at
\* page_height - 25 is drawn by add_header_and_footer only
HeaderSeparator(header) == IF header.text THEN {"header"} ELSE {}

FooterSeparator(impl, add_footer_line) ==
    IF impl = "app" /\ add_footer_line THEN {"footer"} ELSE {}

Separators(impl, header, add_footer_line) ==
    HeaderSeparator(header) \cup FooterSeparator(impl, add_footer_line)

StampInit ==
    /\ t_pc = "start"
    /\ t_mode \in {"headers", "copy"}
    /\ t_source \in StampSources
    /\ t_lands \in BOOLEAN
    /\ t_header \in HeaderLines
    /\ t_preferred \in Positions
    /\ t_page = EmptyPage
    /\ t_position = "none"
    /\ t_impl \in Implementations
    /\ t_add_footer_line \in BOOLEAN
    /\ t_footer_space = 0
    /\ t_lines = {}

StampIdle ==
    /\ t_pc = "idle"
    /\ t_mode = "copy"
    /\ t_source = EmptyPage
    /\ t_lands = FALSE
    /\ t_header = [text |-> FALSE, digits_in |-> {}]
    /\ t_preferred = "bottom-center"
    /\ t_page = EmptyPage
    /\ t_position = "none"
    /\ t_impl = "core"
    /\ t_add_footer_line = FALSE
    /\ t_footer_space = 0
    /\ t_lines = {}

\* _process_page_with_headers, lines 289-320: new page, scaled source
StampPlaceScaled ==
    /\ t_pc = "start"
    /\ t_mode = "headers"
    /\ t_page' = PlaceScaled(t_source, t_lands)
    /\ t_footer_space' = footer_space(t_add_footer_line)
    /\ t_pc' = "placed"
    /\ UNCHANGED <<not_stamp, t_mode, t_source, t_lands, t_header,
                   t_preferred, t_position, t_impl, t_add_footer_line,
                   t_lines>>

\* _copy_page_directly, line 333: insert_pdf appends the source page as is
StampCopy ==
    /\ t_pc = "start"
    /\ t_mode = "copy"
    /\ t_page' = t_source
    /\ t_pc' = "headers_done"
    /\ UNCHANGED <<not_stamp, t_mode, t_source, t_lands, t_header,
                   t_preferred, t_position, t_impl, t_add_footer_line,
                   t_footer_space, t_lines>>

\* _add_header_footer, lines 339-366: the header lines are painted first
StampHeaders ==
    /\ t_pc = "placed"
    /\ t_page' = PaintHeaders(t_page, t_header)
    /\ t_pc' = "headers_done"
    /\ UNCHANGED <<not_stamp, t_mode, t_source, t_lands, t_header,
                   t_preferred, t_position, t_impl, t_add_footer_line,
                   t_footer_space, t_lines>>

\* _add_page_number_only, lines 381-428: the safe position is looked up on
\* the page handed in (the output page), then the number is painted
StampNumber ==
    /\ t_pc = "headers_done"
    /\ t_position' = get_safe_page_number_position(PlacerOf(t_impl), t_page,
                                                    t_preferred)
    /\ t_page' = PaintNumber(t_page, t_position')
    /\ t_pc' = "numbered"
    /\ UNCHANGED <<not_stamp, t_mode, t_source, t_lands, t_header,
                   t_preferred, t_impl, t_add_footer_line, t_footer_space,
                   t_lines>>

\* the rest of the header/footer routine, after the page number:
\* core/merge.py _add_header_footer lines 372-379 and app.py
\* add_header_and_footer lines 324-340
StampSeparators ==
    /\ t_pc = "numbered"
    /\ t_mode = "headers"
    /\ t_lines' = Separators(t_impl, t_header, t_add_footer_line)
    /\ t_pc' = "finished"
    /\ UNCHANGED <<not_stamp, t_mode, t_source, t_lands, t_header,
                   t_preferred, t_page, t_position, t_impl,
                   t_add_footer_line, t_footer_space>>

StampNext ==
    \/ StampPlaceScaled
    \/ StampCopy
    \/ StampHeaders
    \/ StampNumber
    \/ StampSeparators


\* ================================================= page layout (merge)
\* Scale factors are kept in thousandths; a scale that results from a
\* division is kept as a fraction <<numerator, denominator>>; the
\* coordinates of target_rect are numerators over a common denominator.

letter_width == 612
letter_height == 792

\* source page sizes in points: A4, letter, a wide sheet, a tall strip,
\* a small label, a large square plan
SourcePageSizes ==
    {[width |-> 595, height |-> 842], [width |-> 612, height |-> 792],
     [width |-> 1200, height |-> 300], [width |-> 300, height |-> 2000],
     [width |-> 100, height |-> 100], [width |-> 2000, height |-> 2000]}

\* detect_pdf_type, has_small_top_margin and has_content_in_header_area on
\* one page: the two latter return True for an image-based page
PageFlags ==
    {f \in [is_image_based : BOOLEAN, has_tiny_margin : BOOLEAN,
            has_header_content : BOOLEAN] :
        f.is_image_based => (f.has_tiny_margin /\ f.has_header_content)}

\* options scale_factor values of the accepted range 0 < s <= 1
ScaleFactors == {500, 960, 1000}

\* the if/elif chain of process_and_add_page under smart_spacing
SmartLayout(headers_empty, flags) ==
    IF headers_empty
    THEN IF flags.is_image_based
         THEN [rule |-> "image", scale |-> 990, header_space |-> 20,
               content_offset |-> 0, margin |-> 10]
         ELSE IF flags.has_tiny_margin
         THEN [rule |-> "tiny", scale |-> 995, header_space |-> 20,
               content_offset |-> 0, margin |-> 10]
         ELSE IF flags.has_header_content
         THEN [rule |-> "header", scale |-> 980, header_space |-> 30,
               content_offset |-> 0, margin |-> 10]
         ELSE [rule |-> "clean", scale |-> 998, header_space |-> 20,
               content_offset |-> 15, margin |-> 10]
    ELSE IF flags.is_image_based
         THEN [rule |-> "image", scale |-> 950, header_space |-> 50,
               content_offset |-> 0, margin |-> 10]
         ELSE IF flags.has_tiny_margin
         THEN [rule |-> "tiny", scale |-> 970, header_space |-> 40,
               content_offset |-> 0, margin |-> 10]
         ELSE IF flags.has_header_content
         THEN [rule |-> "header", scale |-> 980, header_space |-> 35,
               content_offset |-> 0, margin |-> 10]
         ELSE [rule |-> "clean", scale |-> 985, header_space |-> 35,
               content_offset |-> 0, margin |-> 10]

\* process_and_add_page without smart_spacing
StandardLayout(scale_factor) ==
    [rule |-> "standard", scale |-> scale_factor, header_space |-> 35,
     content_offset |-> 0, margin |-> 10]

\* PDFMerger._process_page_with_headers: margin 30, header_space 50 and
\* options.scale_factor, whatever smart_spacing says
CoreLayout(scale_factor) ==
    [rule |-> "standard", scale |-> scale_factor, header_space |-> 50,
     content_offset |-> 0, margin |-> 30]

LayoutOf(impl, smart_spacing, headers_empty, flags, scale_factor) ==
    IF impl = "core" THEN CoreLayout(scale_factor)
    ELSE IF smart_spacing THEN SmartLayout(headers_empty, flags)
    ELSE StandardLayout(scale_factor)

available_width(layout) == letter_width - 2 * layout.margin

available_height(layout, add_footer_line) ==
    letter_height - layout.header_space - footer_space(add_footer_line)
        + layout.content_offset

\* the smaller of two fractions with positive denominators
FracMin(a, b) == IF a[1] * b[2] <= b[1] * a[2] THEN a ELSE b

\* scale = min(scale_x, scale_y, current_scale_factor) taken without the
\* two ratios
FinalScale_Uncapped(layout, src, add_footer_line) ==
    <<layout.scale, 1000>>

\* scale = min(scale_x, scale_y, current_scale_factor)
FinalScale(layout, src, add_footer_line) ==
    FracMin(FracMin(<<available_width(layout), src.width>>,
                    <<available_height(layout, add_footer_line), src.height>>),
            <<layout.scale, 1000>>)

\* target_rect over the denominator 2 * scale[2]:
\*   x_offset = (letter_width - scaled_width) / 2
\*   y_offset = header_space + (available_height - scaled_height) / 2
\*              - content_offset
target_rect(layout, src, scale, add_footer_line) ==
    LET n == scale[1]
        d == scale[2]
        x_offset == letter_width * d - src.width * n
        y_offset == 2 * d * layout.header_space
                    + (available_height(layout, add_footer_line) * d
                       - src.height * n)
                    - 2 * d * layout.content_offset
    IN  [x0 |-> x_offset, y0 |-> y_offset,
         x1 |-> x_offset + 2 * src.width * n,
         y1 |-> y_offset + 2 * src.height * n,
         den |-> 2 * d]

NoLayout ==
    [rule |-> "none", scale |-> 0, header_space |-> 0, content_offset |-> 0,
     margin |-> 0]

NoRect == [x0 |-> 0, y0 |-> 0, x1 |-> 0, y1 |-> 0, den |-> 1]

LayoutInit ==
    /\ l_pc = "start"
    /\ l_impl \in Implementations
    /\ l_src \in SourcePageSizes
    /\ l_flags \in PageFlags
    /\ l_headers_empty \in BOOLEAN
    /\ l_smart_spacing \in BOOLEAN
    /\ l_scale_factor \in ScaleFactors
    /\ l_add_footer_line \in BOOLEAN
    /\ l_layout = NoLayout
    /\ l_scale = <<0, 1>>
    /\ l_rect = NoRect

LayoutIdle ==
    /\ l_pc = "idle"
    /\ l_impl = "core"
    /\ l_src = [width |-> 612, height |-> 792]
    /\ l_flags = [is_image_based |-> FALSE, has_tiny_margin |-> FALSE,
                  has_header_content |-> FALSE]
    /\ l_headers_empty = TRUE
    /\ l_smart_spacing = FALSE
    /\ l_scale_factor = 960
    /\ l_add_footer_line = FALSE
    /\ l_layout = NoLayout
    /\ l_scale = <<0, 1>>
    /\ l_rect = NoRect

\* app.py lines 354-412, core/merge.py lines 295-296: the layout decision
LayoutDecide ==
    /\ l_pc = "start"
    /\ l_layout' = LayoutOf(l_impl, l_smart_spacing, l_headers_empty,
                            l_flags, l_scale_factor)
    /\ l_pc' = "decided"
    /\ UNCHANGED <<not_layout, l_impl, l_src, l_flags, l_headers_empty,
                   l_smart_spacing, l_scale_factor, l_add_footer_line,
                   l_scale, l_rect>>

\* app.py lines 417-442, core/merge.py lines 297-320: scale and target_rect
LayoutPlace ==
    /\ l_pc = "decided"
    /\ l_scale' = FinalScale(l_layout, l_src, l_add_footer_line)
    /\ l_rect' = target_rect(l_layout, l_src, l_scale', l_add_footer_line)
    /\ l_pc' = "placed"
    /\ UNCHANGED <<not_layout, l_impl, l_src, l_flags, l_headers_empty,
                   l_smart_spacing, l_scale_factor, l_add_footer_line,
                   l_layout>>

LayoutNext ==
    \/ LayoutDecide
    \/ LayoutPlace


\* ============================================== page fitting (normalize)
\* Coordinates of target_rect are numerators over a common denominator,
\* as in the merge layout.

Rotations == {0, 90, 180, 270}

Mediaboxes ==
    {[width |-> 612, height |-> 792], [width |-> 842, height |-> 595],
     [width |-> 200, height |-> 1000]}

\* option sets that NormalizeOptions.validate accepts
FitOptionSets ==
    [page_size : {"letter", "A4", "A5"}, orientation : {"portrait", "landscape"},
     add_ocr : {FALSE}, force_ocr : {FALSE},
     custom_width : {612}, custom_height : {792},
     add_header_footer_space : BOOLEAN]
    \cup [page_size : {"custom"}, orientation : {"portrait", "landscape"},
          add_ocr : {FALSE}, force_ocr : {FALSE},
          custom_width : {612, 100, 40, 30}, custom_height : {792, 45, 30},
          add_header_footer_space : BOOLEAN]

\* source_page.rect: the media box as the viewer shows it, width and
\* height swapped for a quarter turn
page_rect(mediabox, rotation) ==
    IF rotation \in {90, 270}
    THEN [width |-> mediabox.height, height |-> mediabox.width]
    ELSE mediabox

\* lines 94-98: after set_rotation(0) source_page.rect is the media box
derotated_rect(mediabox, rotation) == mediabox

top_margin(o) == IF o.add_header_footer_space THEN 25 ELSE 15

bottom_margin(o) == IF o.add_header_footer_space THEN 20 ELSE 15

side_margin == 20

\* lines 108-110 and 127-128: the content size the scale is computed for
content_size(mediabox, rotation) ==
    IF rotation \in {90, 270}
    THEN [width |-> derotated_rect(mediabox, rotation).height,
          height |-> derotated_rect(mediabox, rotation).width]
    ELSE derotated_rect(mediabox, rotation)

\* lines 105-106, 111-125 (129-142): scale = min(scale_x, scale_y) and the
\* centred rectangle
normalize_rect(o, target, mediabox, rotation) ==
    LET available_w == target[1] - 2 * side_margin
        available_h == target[2] - top_margin(o) - bottom_margin(o)
        content == content_size(mediabox, rotation)
        scale == FracMin(<<available_w, content.width>>,
                         <<available_h, content.height>>)
        n == scale[1]
        d == scale[2]
        x_offset == 2 * d * side_margin + (available_w * d - content.width * n)
        y_offset == 2 * d * top_margin(o) + (available_h * d - content.height * n)
    IN  [x0 |-> x_offset, y0 |-> y_offset,
         x1 |-> x_offset + 2 * content.width * n,
         y1 |-> y_offset + 2 * content.height * n,
         den |-> 2 * d]

\* lines 126 and 143: rotate=90 for a quarter turn either way
show_rotate(rotation) == IF rotation \in {90, 270} THEN 90 ELSE 0

\* lines 127 and 145: show_pdf_page refuses an empty rectangle (ValueError)
RectIsEmpty(r) == r.x1 <= r.x0 \/ r.y1 <= r.y0

FitInit ==
    /\ f_pc = "start"
    /\ f_options \in FitOptionSets
    /\ f_mediabox \in Mediaboxes
    /\ f_rotation \in Rotations
    /\ f_target = <<0, 0>>
    /\ f_rect = NoRect
    /\ f_rotate = 0

FitIdle ==
    /\ f_pc = "idle"
    /\ f_options = [page_size |-> "letter", orientation |-> "portrait",
                    add_ocr |-> FALSE, force_ocr |-> FALSE,
                    custom_width |-> 612, custom_height |-> 792,
                    add_header_footer_space |-> FALSE]
    /\ f_mediabox = [width |-> 612, height |-> 792]
    /\ f_rotation = 0
    /\ f_target = <<0, 0>>
    /\ f_rect = NoRect
    /\ f_rotate = 0

\* normalize, lines 47 and 51: the target size and the new page
FitTarget ==
    /\ f_pc = "start"
    /\ f_target' = get_target_dimensions(f_options)
    /\ f_pc' = "page"
    /\ UNCHANGED <<not_fit, f_options, f_mediabox, f_rotation, f_rect,
                   f_rotate>>

\* _process_page, lines 91-143
FitPage ==
    /\ f_pc = "page"
    /\ f_rect' = normalize_rect(f_options, f_target, f_mediabox, f_rotation)
    /\ f_rotate' = show_rotate(f_rotation)
    /\ f_pc' = IF RectIsEmpty(f_rect') THEN "raised" ELSE "placed"
    /\ UNCHANGED <<not_fit, f_options, f_mediabox, f_rotation, f_target>>

FitNext ==
    \/ FitTarget
    \/ FitPage

InitMerge ==
    MergeInit /\ PlacerIdle /\ NormalizeIdle /\ CompressIdle /\ BatchIdle /\
    ServiceIdle /\ DetectIdle /\ RequestsIdle /\ ReuseIdle /\ StampIdle /\
    LayoutIdle /\ FitIdle

InitPlacer ==
    PlacerInit /\ MergeIdle /\ NormalizeIdle /\ CompressIdle /\ BatchIdle /\
    ServiceIdle /\ DetectIdle /\ RequestsIdle /\ ReuseIdle /\ StampIdle /\
    LayoutIdle /\ FitIdle

InitNormalize ==
    NormalizeInit /\ MergeIdle /\ PlacerIdle /\ CompressIdle /\ BatchIdle /\
    ServiceIdle /\ DetectIdle /\ RequestsIdle /\ ReuseIdle /\ StampIdle /\
    LayoutIdle /\ FitIdle

InitCompress ==
    CompressInit /\ MergeIdle /\ PlacerIdle /\ NormalizeIdle /\ BatchIdle /\
    ServiceIdle /\ DetectIdle /\ RequestsIdle /\ ReuseIdle /\ StampIdle /\
    LayoutIdle /\ FitIdle

InitBatch ==
    BatchInit /\ MergeIdle /\ PlacerIdle /\ NormalizeIdle /\ CompressIdle /\
    ServiceIdle /\ DetectIdle /\ RequestsIdle /\ ReuseIdle /\ StampIdle /\
    LayoutIdle /\ FitIdle

InitService ==
    ServiceInit /\ MergeIdle /\ PlacerIdle /\ NormalizeIdle /\ CompressIdle
    /\ BatchIdle /\ DetectIdle /\ RequestsIdle /\ ReuseIdle /\ StampIdle /\
    LayoutIdle /\ FitIdle

InitDetect ==
    DetectInit /\ MergeIdle /\ PlacerIdle /\ NormalizeIdle /\ CompressIdle
    /\ BatchIdle /\ ServiceIdle /\ RequestsIdle /\ ReuseIdle /\ StampIdle /\
    LayoutIdle /\ FitIdle

InitRequests ==
    RequestsInit /\ MergeIdle /\ PlacerIdle /\ NormalizeIdle /\ CompressIdle
    /\ BatchIdle /\ ServiceIdle /\ DetectIdle /\ ReuseIdle /\ StampIdle /\
    LayoutIdle /\ FitIdle

InitReuse ==
    ReuseInit /\ MergeIdle /\ PlacerIdle /\ NormalizeIdle /\ CompressIdle /\
    BatchIdle /\ ServiceIdle /\ DetectIdle /\ RequestsIdle /\ StampIdle /\
    LayoutIdle /\ FitIdle

InitStamp ==
    StampInit /\ MergeIdle /\ PlacerIdle /\ NormalizeIdle /\ CompressIdle /\
    BatchIdle /\ ServiceIdle /\ DetectIdle /\ RequestsIdle /\ ReuseIdle /\
    LayoutIdle /\ FitIdle

InitLayout ==
    LayoutInit /\ MergeIdle /\ PlacerIdle /\ NormalizeIdle /\ CompressIdle
    /\ BatchIdle /\ ServiceIdle /\ DetectIdle /\ RequestsIdle /\ ReuseIdle
    /\ StampIdle /\ FitIdle

InitFit ==
    FitInit /\ MergeIdle /\ PlacerIdle /\ NormalizeIdle /\ CompressIdle /\
    BatchIdle /\ ServiceIdle /\ DetectIdle /\ RequestsIdle /\ ReuseIdle /\
    StampIdle /\ LayoutIdle

SpecMerge == InitMerge /\ [][MergeNext]_vars

SpecPlacer == InitPlacer /\ [][PlacerNext]_vars

SpecNormalize == InitNormalize /\ [][NormalizeNext]_vars

SpecCompress == InitCompress /\ [][CompressNext]_vars

SpecBatch == InitBatch /\ [][BatchNext]_vars

SpecService == InitService /\ [][ServiceNext]_vars

SpecDetect == InitDetect /\ [][DetectNext]_vars

SpecRequests == InitRequests /\ [][RequestsNext]_vars

SpecReuse == InitReuse /\ [][ReuseNext]_vars

SpecStamp == InitStamp /\ [][StampNext]_vars

SpecLayout == InitLayout /\ [][LayoutNext]_vars

SpecFit == InitFit /\ [][FitNext]_vars

\* ===================================================== claims on merge
ContentPages == SelectSeq(output_pdf, LAMBDA p : p.kind = "content")
TocPages == SelectSeq(output_pdf, LAMBDA p : p.kind = "toc")
PageCounts(fs) == [i \in 1..Len(fs) |-> fs[i].pages]
AllFilesExist == \A i \in 1..Len(files) : Exists(files[i])

\* pages contributed by the files before position k of the input list
PagesBefore(k) ==
    SumSeq([j \in 1..(k - 1) |->
              IF files[j].kind \in {"ok", "badpage"} THEN files[j].pages ELSE 0])

\* C1: when every source file exists, the document merge returns has
\* toc_page_count + (p1 + ... + pN) pages, toc_page_count being 1 exactly
\* when a TOC page was generated; and when a file is started, current_page
\* (and the start index recorded for it) is the number of pages already in
\* the output.
C1_PageCount ==
    /\ (m_pc = "returned" /\ AllFilesExist) =>
          /\ Len(output_pdf) = toc_page_count + SumSeq(PageCounts(files))
          /\ toc_page_count = Len(TocPages)
          /\ toc_page_count \in {0, 1}
    /\ (m_pc = "page" /\ page_num = 0) =>
          /\ current_page = Len(output_pdf)
          /\ start_page_idx = Len(output_pdf)

C1_Witness ==
    /\ m_pc = "returned"
    /\ AllFilesExist
    /\ Len(files) = 2
    /\ toc_page_count = 1
    /\ Len(output_pdf) = 4

\* C2 (as claimed): two 1-page files, page_start 1, no headers, bookmarks
\* on and add_toc not mentioned give 2 pages, no TOC page and an outline
\* targeting pages 1 and 2.
C2_Scenario ==
    /\ Len(files) = 2
    /\ \A i \in 1..Len(files) : files[i].kind = "ok" /\ files[i].pages = 1
    /\ DOMAIN m_dict \subseteq {"add_bookmarks"}
    /\ options.add_bookmarks
    /\ options.page_start = 1
    /\ ~headers_at_start

C2_TwoPagesNoToc ==
    (C2_Scenario /\ m_pc = "returned") =>
        /\ Len(output_pdf) = 2
        /\ TocPages = <<>>
        /\ Len(outline) = 2
        /\ outline[1].page = 1
        /\ outline[2].page = 2

C4_PageNumbering ==
    /\ \A k \in 1..Len(ContentPages) :
          ContentPages[k].number = options.page_start + k - 1
    /\ m_pc \in {"toc", "loop", "page", "return", "returned"} =>
          total_page_number = options.page_start + Len(ContentPages)

C4_Witness ==
    /\ m_pc = "returned"
    /\ Len(TocPages) = 1
    /\ options.page_start = 2
    /\ Len(ContentPages) = 3
    /\ ContentPages[3].number = 4

\* the content pages of file i, in output order
PagesOfFile(i) == SelectSeq(output_pdf, LAMBDA p : p.kind = "content" /\ p.file = i)

\* C15 (as claimed): on the TOC page, the number printed for file i is the
\* number stamped on file i's first page (total_page_number, which starts
\* at page_start), for every page_start >= 1.
C15_TocMatchesStamps ==
    (m_pc = "returned") =>
        \A t \in 1..Len(TocPages) :
            \A e \in 1..Len(TocPages[t].entries) :
                LET entry == TocPages[t].entries[e] IN
                (PagesOfFile(entry.idx) # <<>>) =>
                    entry.page = PagesOfFile(entry.idx)[1].number

\* C19: the mode is decided once per run.  With add_headers requested and
\* every header blank, every page is copied directly; with add_headers
\* requested and some header not blank, every page of every file (files
\* with blank headers included) is placed on a new 612x792 page; without
\* add_headers every page is copied directly.
C19_ModeOncePerRun ==
    \A k \in 1..Len(ContentPages) :
        IF headers_at_start /\ ~AllHeadersEmpty(files)
        THEN /\ ContentPages[k].mode = "headers"
             /\ ContentPages[k].size = <<612, 792>>
        ELSE /\ ContentPages[k].mode = "copy"
             /\ ContentPages[k].size = SourceRect

C19_Witness ==
    /\ m_pc = "returned"
    /\ headers_at_start
    /\ Len(files) = 2
    /\ files[1].hdr /\ ~files[2].hdr
    /\ Len(ContentPages) >= 2
    /\ ContentPages[Len(ContentPages)].file = 2
    /\ ContentPages[Len(ContentPages)].mode = "headers"

\* C9: when merge has returned or raised, every source document it opened
\* is closed; a failure closes the output document and reaches the caller
\* as PDFMergeError.
C9_Release ==
    /\ m_pc \in {"returned", "raised"} => open_handles = {}
    /\ m_pc = "raised" => output_closed /\ m_exc = "PDFMergeError"
    /\ m_pc = "returned" => ~output_closed /\ m_exc = "none"

C9_Witness ==
    /\ m_pc = "raised"
    /\ Len(source_pdfs) = 2
    /\ output_closed

\* ============================================ claims on the page placer
Detected(position) == detect_existing_page_numbers(p_impl, p_page, position)

\* C7 (as claimed): if a number is detected at the preferred position, the
\* position returned differs from the preferred one.
C7_DiffersFromPreferred ==
    (p_pc = "done" /\ p_preferred \in Positions /\ Detected(p_preferred)) =>
        p_result # p_preferred

\* C7 (amended): if a number is detected at the preferred position, the
\* position returned differs from the preferred one, except when a number
\* is detected at all four positions and the preferred position is
\* top-right: then the all-conflict default top-right is returned.
C7_DiffersUnlessAllConflict ==
    (p_pc = "done" /\ p_preferred \in Positions /\ Detected(p_preferred)) =>
        IF \A q \in Positions : Detected(q)
        THEN p_result = "top-right"
        ELSE p_result # p_preferred /\ ~Detected(p_result)

C7_Witness ==
    /\ p_pc = "done"
    /\ p_preferred = "bottom-center"
    /\ Detected(p_preferred)
    /\ Detected("top-right")
    /\ p_result = "bottom-right"

\* the fixed fallback order of the claim
FixedOrder ==
    <<p_preferred, "top-right", "bottom-right", "bottom-center", "top-center">>

FreeRanks == {k \in 1..Len(FixedOrder) : ~Detected(FixedOrder[k])}

\* C18: get_safe_page_number_position returns the first position of the
\* order preferred, top-right, bottom-right, bottom-center, top-center at
\* which no page number is detected, and top-right when a number is
\* detected at every one of them; it returns a position (never raises) for
\* every preferred value and every detection outcome, detection errors
\* included.
C18_FirstFreeInOrder ==
    (p_pc = "done") =>
        /\ p_result \in Positions \cup {p_preferred}
        /\ IF FreeRanks # {}
           THEN p_result =
                  FixedOrder[CHOOSE k \in FreeRanks : \A j \in FreeRanks : k <= j]
           ELSE p_result = "top-right"

C18_Witness ==
    /\ p_pc = "done"
    /\ p_preferred = "top-center"
    /\ Detected("top-center")
    /\ Detected("top-right")
    /\ Detected("bottom-right")
    /\ ~Detected("bottom-center")
    /\ p_result = "bottom-center"

\* ============================================== claims on the normalizer
\* the size a caller asks for: the standard portrait size of the name,
\* turned for landscape
StandardPortrait ==
    ("letter" :> <<612, 792>>) @@ ("legal" :> <<612, 1008>>) @@
    ("A4" :> <<595, 842>>) @@ ("A3" :> <<842, 1191>>) @@
    ("A5" :> <<420, 595>>)

RequestedSize(o) ==
    LET portrait == IF o.page_size = "custom"
                    THEN <<o.custom_width, o.custom_height>>
                    ELSE StandardPortrait[o.page_size]
    IN IF o.orientation = "landscape"
       THEN <<portrait[2], portrait[1]>>
       ELSE portrait

\* C6 (as claimed): for options validate accepts, every output page has
\* exactly the requested target dimensions.
C6_TargetSizeExact ==
    NormalizeOptions_validate(n_options) =>
        \A i \in 1..Len(n_output) :
            <<n_output[i].width, n_output[i].height>> = RequestedSize(n_options)

\* C10 (as claimed): after normalize returned or raised, the source
\* document it opened is closed.
C10_SourceClosed ==
    n_pc \in {"returned", "raised"} => ~n_source_open

\* C14 (as claimed): OCR is run on a source page exactly when add_ocr is set
\* and (force_ocr is set or the page carries no digital text): a page with
\* digital text is not OCR'd unless force_ocr is set.
C14_OcrCondition ==
    \A k \in 1..Len(n_output) :
        (n_doc.fail_at # k) =>
            (n_output[k].ocr =
                (n_options.add_ocr
                 /\ (n_options.force_ocr \/ ~n_doc.pages[k].text)))

\* ============================================== claims on compression
\* C5 (as claimed): the file compression delivers is never larger than the
\* original; when the re-serialized output is not smaller, the original is
\* delivered and compressed_size is reported equal to original_size.
C5_NeverLarger ==
    (c_pc = "done") =>
        /\ c_delivered.size <= c_file.original_size
        /\ (c_file.saved_size >= c_file.original_size) =>
              /\ c_delivered.kind = "original"
              /\ c_stats.compressed_size = c_stats.original_size

\* C12 (as claimed): the image quality and target DPI compress_file applies
\* are the caller's image_quality / target_dpi when supplied, otherwise the
\* defaults of the level as CompressionOptions.from_dict defines them
\* (low 95/200, medium 85/150, high 75/120).
C12_AppliedSettings ==
    (c_impl = "enhanced" /\ c_pc \notin {"idle", "start"}) =>
        /\ c_settings.image_quality =
              CompressionOptions_from_dict(c_options).image_quality
        /\ c_settings.target_dpi =
              CompressionOptions_from_dict(c_options).target_dpi

\* ============================================ claims on the batch runs
\* C8 (as claimed): a file that fails never aborts the batch: every file of
\* the list is processed, and each failed file appears in the returned
\* results as a failure entry.
C8_FailureIsolated ==
    (b_pc = "done") =>
        /\ b_called = 1..Len(b_configs)
        /\ \A i \in 1..Len(b_configs) :
              b_configs[i] # "ok" =>
                 \E k \in 1..Len(b_return.results) :
                    /\ b_return.results[k].file = i
                    /\ ~b_return.results[k].success

\* ======================================== claims on the merge service
InvalidRequest ==
    \/ s_configs = <<>>
    \/ \E i \in 1..Len(s_configs) :
          ~s_configs[i].has_path \/ ~s_configs[i].has_name
    \/ ~MergeOptions_validate(MergeOptions_from_dict(s_dict))

\* C11: merge_files always returns, and for an empty file list, a config
\* without path or name, or out-of-range options it returns success=false
\* with error_type 'validation' and writes no output file.
C11_ValidationFailure ==
    (s_pc = "returned" /\ InvalidRequest) =>
        /\ ~s_result.success
        /\ "error_type" \in DOMAIN s_result
        /\ ~s_saved

\* ======================================== claims on detect_pdf_type
ExtractionFails ==
    d_page.get_text_raises \/ (d_impl = "app" /\ d_page.lookup_raises)

\* C13 (as claimed): detect_pdf_type returns a record with is_image_based,
\* text_length and image_count, where is_image_based = (text_length < 100
\* and image_count > 0) and has_content = (text_length > 0 or image_count
\* > 0); a page without text and images gives false/false, and an
\* extraction failure gives is_image_based=true, has_content=false.
C13_Classification ==
    (d_pc = "done") =>
        /\ {"is_image_based", "text_length", "image_count", "has_content"}
              \subseteq DOMAIN d_result
        /\ d_result.is_image_based =
              ((d_result.text_length < 100 /\ d_result.image_count > 0)
               \/ ExtractionFails)
        /\ d_result.has_content =
              (d_result.text_length > 0 \/ d_result.image_count > 0)
        /\ (~ExtractionFails /\ d_page.text = 0 /\ d_page.images = 0) =>
              (~d_result.is_image_based /\ ~d_result.has_content)
        /\ ExtractionFails =>
              (d_result.is_image_based /\ ~d_result.has_content)

\* ================================= claims on the shared service objects
\* C16 (as claimed): under every interleaving of two requests with
\* different options on the shared service objects, each request is
\* processed and reported with its own options only.
C16_OwnOptionsOnly ==
    \A r \in Requests :
        /\ (q_impl = "normalize" /\ q_pc[r] \in {"report", "done"}) =>
              q_used[r] = NormalizeOptions_from_dict(q_dicts[r])
        /\ (q_impl = "compress" /\ q_pc[r] = "done") =>
              q_report[r].compression_level =
                  Get(q_dicts[r], "compression_level", "medium")

\* ================================== claims on reusing a PDFMerger
\* C17 (as claimed): nothing persists across merge() calls: the mode of
\* each call depends only on the options given at construction and on
\* that call's files, and merge() leaves the MergeOptions object unchanged.
C17_NoStateAcrossCalls ==
    (r_pc = "ready") =>
        /\ r_options = r_constructed
        /\ \A k \in 1..Len(r_calls) :
              r_calls[k].mode =
                  PageMode(OptionsAfterHeaderCheck(r_constructed,
                                                   r_calls[k].files))

\* ================================ claims on stamping an output page
\* the output page before any header text is painted on it
UnpaintedPage ==
    IF t_mode = "headers" THEN PlaceScaled(t_source, t_lands) ELSE t_source

\* C20 (as claimed): the position of the page number is determined before
\* any text is painted on the output page: for a fixed source page and
\* preferred position it is the same whatever the header lines are (digits
\* in a header never move the page number).
C20_HeaderIndependent ==
    (t_pc = "numbered") =>
        t_position =
            get_safe_page_number_position(PlacerOf(t_impl), UnpaintedPage,
                                          t_preferred)

\* C21: in transform mode a finished content page carries the footer
\* separator exactly when add_footer_line is enabled (and the larger footer
\* space of 15 was reserved exactly then)
C21_FooterSeparator ==
    (t_mode = "headers" /\ t_pc = "finished") =>
        /\ ("footer" \in t_lines) = t_add_footer_line
        /\ (t_footer_space = 15) = t_add_footer_line

\* the positions of the input list whose file exists, in file order
MergedFiles ==
    SelectSeq([i \in 1..Len(files) |-> i], LAMBDA i : Exists(files[i]))

\* C28: the outline is installed at most once, only after the last content
\* page of the last file is in the output, only when add_bookmarks is set
\* and more than one file was merged; it then has exactly one level-1
\* entry per merged file, in file order; a single merged file gets none
C28_OutlineOnce ==
    /\ outline_sets <= 1
    /\ (outline_sets = 0) => (outline = <<>>)
    /\ (outline_sets = 1) =>
          /\ idx > Len(files)
          /\ Len(ContentPages) = PagesBefore(Len(files) + 1)
          /\ options.add_bookmarks
          /\ Len(MergedFiles) > 1
          /\ Len(outline) = Len(MergedFiles)
          /\ \A i \in 1..Len(outline) :
                /\ outline[i].level = 1
                /\ outline[i].name = MergedFiles[i]
    /\ (Len(MergedFiles) <= 1) => (outline_sets = 0)

\* a merge of two files has returned with the outline installed
C28_Witness ==
    /\ m_pc = "returned"
    /\ outline_sets = 1
    /\ Len(outline) = 2
    /\ Len(ContentPages) >= 2

\* the files the TOC page lists, the files with pages in the output and
\* the files the outline names, each in order
TocFiles ==
    IF TocPages = <<>> THEN <<>>
    ELSE [k \in 1..Len(TocPages[1].entries) |-> TocPages[1].entries[k].idx]

ContributingFiles ==
    SelectSeq([i \in 1..Len(files) |-> i],
              LAMBDA i : \E k \in 1..Len(output_pdf) :
                            /\ output_pdf[k].kind = "content"
                            /\ output_pdf[k].file = i)

OutlineFiles == [k \in 1..Len(outline) |-> outline[k].name]

\* C30: in a merge with TOC and bookmarks enabled the files listed on the
\* TOC page are exactly the files that contributed pages to the output, in
\* the same order, and an installed outline names the same files
C30_TocMatchesOutline ==
    (m_pc = "returned" /\ options.add_toc /\ options.add_bookmarks
        /\ TocPages # <<>>) =>
        /\ TocFiles = ContributingFiles
        /\ (outline_sets = 1) => (OutlineFiles = TocFiles)

\* ===================================================== claims on layout

\* the order in which the rules are to be tried
RuleOrder == <<"image", "tiny", "header", "clean">>

RuleMatches(flags, rule) ==
    CASE rule = "image" -> flags.is_image_based
      [] rule = "tiny" -> flags.has_tiny_margin
      [] rule = "header" -> flags.has_header_content
      [] OTHER -> TRUE

FirstMatch(flags) ==
    RuleOrder[CHOOSE i \in 1..4 :
        /\ RuleMatches(flags, RuleOrder[i])
        /\ \A j \in 1..(i - 1) : ~RuleMatches(flags, RuleOrder[j])]

\* a page on which the given rule is the first to match
PageFor(rule) ==
    [is_image_based |-> rule = "image",
     has_tiny_margin |-> rule \in {"image", "tiny"},
     has_header_content |-> rule \in {"image", "header"}]

RankOf(rule) == CHOOSE i \in 1..4 : RuleOrder[i] = rule

\* C22: the layout decision takes the first matching rule in the order
\* image-based, small top margin, existing header content, clean page, and
\* in the table in use every rule later in that order has a scale at least
\* as large and a header reservation at most as large as the rule taken
C22_FirstMatchMonotone ==
    (l_pc \in {"decided", "placed"} /\ l_impl = "app" /\ l_smart_spacing) =>
        /\ l_layout.rule = FirstMatch(l_flags)
        /\ \A i \in 1..4 :
              i > RankOf(l_layout.rule) =>
                  LET later == SmartLayout(l_headers_empty, PageFor(RuleOrder[i]))
                  IN  /\ later.scale >= l_layout.scale
                      /\ later.header_space <= l_layout.header_space

\* C23 (scale): the final scale is the least of the option/table scale,
\* available_width / src_width and available_height / src_height
C23_ScaleIsMin ==
    LET n == l_scale[1]
        d == l_scale[2]
        aw == letter_width - 2 * l_layout.margin
        ah == letter_height - l_layout.header_space
              - (IF l_add_footer_line THEN 15 ELSE 5) + l_layout.content_offset
    IN  /\ n * 1000 <= l_layout.scale * d
        /\ n * l_src.width <= aw * d
        /\ n * l_src.height <= ah * d
        /\ \/ n * 1000 = l_layout.scale * d
           \/ n * l_src.width = aw * d
           \/ n * l_src.height = ah * d

\* C23 (rectangle): the placed rectangle is centred horizontally, keeps the
\* side margin on both sides, starts at or below header_space less
\* content_offset and ends at or above the footer space
C23_RectInside ==
    LET fs == IF l_add_footer_line THEN 15 ELSE 5
    IN  /\ l_rect.x0 <= l_rect.x1
        /\ l_rect.y0 <= l_rect.y1
        /\ l_rect.x0 + l_rect.x1 = letter_width * l_rect.den
        /\ l_rect.x0 >= l_layout.margin * l_rect.den
        /\ l_rect.x1 <= (letter_width - l_layout.margin) * l_rect.den
        /\ l_rect.y0 >= (l_layout.header_space - l_layout.content_offset)
                            * l_rect.den
        /\ l_rect.y1 <= (letter_height - fs) * l_rect.den

\* C23: in merge transform mode the final scale is the minimum of the three
\* candidates and the placed content rectangle lies inside the 612x792 page
\* within margins, header space and footer space, for every source size
C23_ScaledInsidePage ==
    (l_pc = "placed") => (C23_ScaleIsMin /\ C23_RectInside)

\* a wide page has been placed by the app under the clean-page rule, the
\* width ratio being the final scale
C23_Witness ==
    /\ l_pc = "placed"
    /\ l_impl = "app"
    /\ l_smart_spacing
    /\ l_layout.content_offset = 15
    /\ l_src = [width |-> 1200, height |-> 300]
    /\ l_scale[1] * 1000 < l_layout.scale * l_scale[2]

\* C25: the core never modifies the source document: the pages of the open
\* source document keep the rotation (and every other attribute) they had
\* when the document was opened, so the OCR step reads the original page
C25_SourceReadOnly ==
    \A k \in 1..Len(n_source) : n_source[k] = n_doc.pages[k]

\* ================================================ claims on page fitting

\* C24: for every source page size, rotation and accepted option set the
\* rectangle normalize places the content into has positive width and
\* height, lies within the side, top and bottom margins of the target page
\* and has the aspect ratio of the page as the viewer shows it
C24_RectWithinMargins ==
    (f_pc \in {"placed", "raised"} /\ NormalizeOptions_validate(f_options)) =>
        LET W == f_target[1]
            H == f_target[2]
            top == IF f_options.add_header_footer_space THEN 25 ELSE 15
            bottom == IF f_options.add_header_footer_space THEN 20 ELSE 15
            visible == page_rect(f_mediabox, f_rotation)
        IN  /\ f_rect.x1 > f_rect.x0
            /\ f_rect.y1 > f_rect.y0
            /\ f_rect.x0 >= 20 * f_rect.den
            /\ f_rect.x1 <= (W - 20) * f_rect.den
            /\ f_rect.y0 >= top * f_rect.den
            /\ f_rect.y1 <= (H - bottom) * f_rect.den
            /\ (f_rect.x1 - f_rect.x0) * visible.height
                   = (f_rect.y1 - f_rect.y0) * visible.width

\* C26: an embedded image is replaced only if its re-encoded byte size is
\* smaller than the original's or a resize of it actually took place; an
\* image neither resized nor smaller after re-encoding is left untouched
C26_ReplaceOnlyIfSmallerOrResized ==
    \A i \in 1..Len(c_images_out) :
        c_images_out[i].replaced =>
            \/ c_file.images[i].reenc < c_file.images[i].size
            \/ c_images_out[i].resized

\* C27: when the service downsamples an image whose estimated DPI exceeds
\* the target DPI, the applied scale is never below 0.7 and, when
\* target_dpi / current_dpi is at least 0.7, never above that ratio
C27_ScaleFloor ==
    (c_impl = "enhanced") =>
        \A i \in 1..Len(c_images_out) :
            c_images_out[i].should_resize =>
                LET scale == c_images_out[i].scale
                    dpi == EnhancedDpi(c_file.images[i])
                    ratio == <<c_settings.target_dpi * dpi[2], dpi[1]>>
                IN  /\ scale[1] * 10 >= 7 * scale[2]
                    /\ (ratio[1] * 10 >= 7 * ratio[2]) =>
                           scale[1] * ratio[2] <= ratio[1] * scale[2]

\* C29: normalize_batch reports success whenever at least one file of the
\* batch was normalized, and what it returns is then the ZIP of the
\* normalized files or the output of a file that was normalized, wherever
\* the failed files stand in the input list
C29_BatchSuccessRefersToOutput ==
    (b_pc = "done" /\ b_impl = "normalize" /\ Len(b_ok_files) >= 1) =>
        /\ b_return.success
        /\ \/ b_return.shape = "zip"
           \/ /\ b_return.shape = "single"
              /\ b_return.entry \in 1..Len(b_configs)
              /\ b_configs[b_return.entry] = "ok"

====
